---- MODULE Spec2Model ----
(***************************************************************************)
(* noknok: forward-auth gateway.  Model of the persistent store (users,    *)
(* services, grants, sessions), the session manager, the policy engine,    *)
(* the /auth decision handler, the OAuth callback, the cross-domain relay  *)
(* and the user part of the admin API.                                     *)
(*                                                                         *)
(* Strings the code matches character by character (forwarded hosts,       *)
(* service URLs, service names, the relay's r parameter) are sequences of  *)
(* one-character strings.  Tokens are <<"tok", n>>, group ids <<"grp", n>>;*)
(* n = 0 is the empty string.                                              *)
(***************************************************************************)
EXTENDS Integers, Sequences, FiniteSets, TLC

\* ---------------------------------------------------------------- bounds
MaxTime == 3
MaxSessions == 2
MaxUserId == 3
MaxGrantId == 1
MaxGrantRows == 2
MaxServiceId == 4
MaxCatalog == 2
MaxPasses == 2
MaxMaps == 4

\* ------------------------------------------------------ program constants
\* session TTL in clock ticks (SESSION_TTL)
TTL == 2

OwnerDID == "did:own"
PublicURL == <<"P">>
\* COOKIE_DOMAINS in configuration order; the first is the primary domain
CookieDomains == << <<".", "p">>, <<".", "k">> >>
CookieDomain == CookieDomains[1]

VARIABLES
    users,      \* users table: set of rows [id, did, handle, username, role]
    services,   \* services table: set of rows [id, slug, name, description, url, icon_url,
                \*   admin_role, enabled, public]
    grants,     \* grants table: set of rows [id, user_id, service_id, role]
    sessions,   \* sessions table: set of rows
    nextId,     \* identity sequences: [user, grant, session, service]
    now,        \* the clock (database now() and time.Now())
    cb,         \* in-flight OAuth callbacks: position and locals of each
    pending,    \* detached last_seen updates not yet executed (tokens)
    issued,     \* history: what Create inserted, by token
    resp,       \* the last request answered and its response
    tasks,      \* background tasks: the cleanup task, the health poller, their stop channels
    health      \* the shared health snapshot, its lock and the maps on the heap

vars == <<users, services, grants, sessions, nextId, now, cb, pending, issued, resp,
          tasks, health>>

\* ------------------------------------------------------------ value sets
DIDs == {"did:own", "did:a", "did:b"}
Roles == {"owner", "admin", "user"}
\* role strings a request body may carry: the three roles, none, and an unknown one
ReqRoles == Roles \cup {"", "bogus"}
Handles == {"h1"}

NoToken == <<"tok", 0>>
NoGroup == <<"grp", 0>>
Tok(n) == <<"tok", n>>
Grp(n) == <<"grp", n>>
\* cookie values a client may send: none, every token ever issued, one never issued
Cookies == {Tok(n) : n \in 0..(MaxSessions + 1)}

\* forwarded hosts a request may carry
Hosts == { <<>>, <<"a">>, <<"a", "b">>, <<"c">>, <<"z">>, <<"%">> }

Procs == {1, 2}

\* ------------------------------------------------------- string helpers
\* strings.HasPrefix
HasPrefix(str, pre) ==
    /\ Len(str) >= Len(pre)
    /\ SubSeq(str, 1, Len(pre)) = pre

\* SQL LIKE: % matches any run of characters, _ any one character
RECURSIVE LikeMatch(_, _)
LikeMatch(pat, str) ==
    IF pat = <<>> THEN str = <<>>
    ELSE IF Head(pat) = "%"
         THEN \/ LikeMatch(Tail(pat), str)
              \/ (str # <<>> /\ LikeMatch(pat, Tail(str)))
         ELSE /\ str # <<>>
              /\ (Head(pat) = "_" \/ Head(pat) = Head(str))
              /\ LikeMatch(Tail(pat), Tail(str))

\* url LIKE '%' || host || '%'
UrlLikeHost(url, host) == LikeMatch(<<"%">> \o host \o <<"%">>, url)

\* plain substring test: the host occurs in the url
Contains(str, sub) ==
    \E i \in 1..(Len(str) + 1) :
        /\ i + Len(sub) - 1 <= Len(str)
        /\ SubSeq(str, i, i + Len(sub) - 1) = sub

\* url.QueryEscape on the characters used here: space becomes +, reserved
\* characters are percent-encoded, unreserved ones stay
EscapeChar(c) ==
    CASE c = " " -> "+"
      [] c = ":" -> "%3A"
      [] c = "/" -> "%2F"
      [] c = "%" -> "%25"
      [] OTHER -> c
RECURSIVE QueryEscape(_)
QueryEscape(str) ==
    IF str = <<>> THEN <<>>
    ELSE <<EscapeChar(Head(str))>> \o QueryEscape(Tail(str))

HasSuffix(str, suf) ==
    Len(str) >= Len(suf) /\ SubSeq(str, Len(str) - Len(suf) + 1, Len(str)) = suf
TrimPrefix(str, pre) ==
    IF HasPrefix(str, pre) THEN SubSeq(str, Len(pre) + 1, Len(str)) ELSE str
\* strings.LastIndex(str, c), 1-based; 0 when c does not occur
LastIndex(str, c) ==
    LET hits == {i \in 1..Len(str) : str[i] = c}
    IN IF hits = {} THEN 0 ELSE CHOOSE i \in hits : \A j \in hits : j <= i

\* DomainForHost matching the host with its port still attached
DomainForHost_keepPort(host) ==
    LET hits == {i \in 1..Len(CookieDomains) :
                    host = TrimPrefix(CookieDomains[i], <<".">>) \/ HasSuffix(host, CookieDomains[i])}
    IN IF hits = {} THEN CookieDomain
       ELSE CookieDomains[CHOOSE i \in hits : \A j \in hits : i <= j]

\* Config.DomainForHost: the first cookie domain the host (port stripped) equals
\* or ends with, else the primary domain
DomainForHost(host) ==
    LET idx == LastIndex(host, ":")
        h == IF idx # 0 THEN SubSeq(host, 1, idx - 1) ELSE host
        hits == {i \in 1..Len(CookieDomains) :
                    h = TrimPrefix(CookieDomains[i], <<".">>) \/ HasSuffix(h, CookieDomains[i])}
    IN IF hits = {} THEN CookieDomain
       ELSE CookieDomains[CHOOSE i \in hits : \A j \in hits : i <= j]

\* ---------------------------------------------------------- store reads
UserByDID(did) == {u \in users : u.did = did}
UserById(id) == {u \in users : u.id = id}

\* mutant of GrantRole: a grant on any service counts
GrantRole_anyService(uid, sid) ==
    LET gs == {g \in grants : g.user_id = uid}
    IN IF gs = {} THEN "" ELSE (CHOOSE g \in gs : TRUE).role

\* COALESCE(g.role, '') of the grant joined on (user, service)
GrantRole(uid, sid) ==
    LET gs == {g \in grants : g.user_id = uid /\ g.service_id = sid}
    IN IF gs = {} THEN "" ELSE (CHOOSE g \in gs : TRUE).role

\* rows of "FROM services WHERE url LIKE '%' || host || '%'"; LIMIT 1 without
\* ORDER BY returns any one of them
ServicesByHost(host) == {s \in services : UrlLikeHost(s.url, host)}

\* rows of the users / services / grants join of GetUserServiceRole before LIMIT 1
PolicyRows(did, host) ==
    LET ss == ServicesByHost(host)
    IN IF ss = {}
       THEN {[userRole |-> u.role, grantRole |-> "", adminRole |-> "admin", sid |-> 0] :
                u \in UserByDID(did)}
       ELSE {[userRole |-> u.role, grantRole |-> GrantRole(u.id, s.id),
              adminRole |-> s.admin_role, sid |-> s.id] :
                u \in UserByDID(did), s \in ss}

\* mutant of RoleOfRow: a grant overrides the service's admin role
RoleOfRow_grantFirst(row) ==
    IF row.grantRole # "" THEN row.grantRole
    ELSE IF row.userRole = "owner" \/ row.userRole = "admin" THEN row.adminRole
    ELSE ""

\* the role GetUserServiceRole returns for the scanned row; "" is deny
RoleOfRow(row) ==
    IF row.userRole = "owner" \/ row.userRole = "admin" THEN row.adminRole
    ELSE IF row.grantRole # "" THEN row.grantRole
    ELSE ""

\* ------------------------------------------------------ session manager
\* mutant of Validate: a session still validates at its expiry instant
Validate_atExpiry(token) == {s \in sessions : s.token = token /\ s.expires_at >= now}

\* Validate: the row with that token and expires_at > now(), if any
Validate(token) == {s \in sessions : s.token = token /\ s.expires_at > now}

\* The last_seen update Validate detaches.  It carries a 5 s deadline, far
\* below one clock tick, so it runs (or times out) before the clock moves; one
\* that would rewrite the value the row already holds is not tracked.
Detach(token, validated) ==
    pending' = IF validated /\ \E s \in sessions : s.token = token /\ s.last_seen # now
               THEN pending \cup {token} ELSE pending

\* GroupHasDID: live sessions of the DID in the group (none for the empty group)
GroupHasDID(groupID, did) ==
    IF groupID = NoGroup THEN {}
    ELSE {s \in sessions : s.group_id = groupID /\ s.did = did /\ s.expires_at > now}

\* mutant of SwitchTo: the group is not compared
SwitchTo_anyGroup(groupID, sessionID) ==
    {s \in sessions : s.id = sessionID /\ s.expires_at > now}

\* SwitchTo: the live session with that id in the group, if any
SwitchTo(groupID, sessionID) ==
    {s \in sessions : s.id = sessionID /\ s.group_id = groupID /\ s.expires_at > now}

\* mutant of ListGroupRows: expired rows are listed too
ListGroupRows_withExpired(groupID) ==
    IF groupID = NoGroup THEN {}
    ELSE {s \in sessions : s.group_id = groupID}

\* ListGroup's rows before ORDER BY: the live sessions of the group (none for
\* the empty group id)
ListGroupRows(groupID) ==
    IF groupID = NoGroup THEN {}
    ELSE {s \in sessions : s.group_id = groupID /\ s.expires_at > now}

\* the orders ORDER BY created_at may return a set of rows in; rows of equal
\* created_at come in either order
OrderedBy(rows) ==
    {q \in [1..Cardinality(rows) -> rows] :
        /\ \A i, j \in 1..Cardinality(rows) : i # j => q[i] # q[j]
        /\ \A i, j \in 1..Cardinality(rows) : i < j => q[i].created_at <= q[j].created_at}

\* ListGroup(groupID)
ListGroup(groupID) == OrderedBy(ListGroupRows(groupID))

\* mutant of DestroyOneRest: the group is not compared
DestroyOneRest_anyGroup(groupID, sessionID) == {s \in sessions : s.id # sessionID}

\* DestroyOne's DELETE FROM sessions WHERE id = $1 AND group_id = $2
DestroyOneRest(groupID, sessionID) ==
    {s \in sessions : ~(s.id = sessionID /\ s.group_id = groupID)}

\* DestroyOne's next session: the first live row of the group by created_at
\* among those left
DestroyOneNext(groupID, sessionID) ==
    LET left == {s \in DestroyOneRest(groupID, sessionID) :
                    s.group_id = groupID /\ s.expires_at > now}
    IN {s \in left : \A t \in left : s.created_at <= t.created_at}

\* makeCookie / MakeCookieForDomain
MakeCookie(token, expiresAt, domain) ==
    [value |-> token, expires |-> expiresAt, domain |-> domain, clear |-> FALSE]
ClearCookie == [value |-> NoToken, expires |-> 0, domain |-> CookieDomain, clear |-> TRUE]
NoCookie == [value |-> NoToken, expires |-> 0, domain |-> <<>>, clear |-> FALSE]

\* SELECT username FROM users WHERE id = $1 in Create: the scan error is
\* dropped, so no row leaves the username empty
UsernameOf(did) ==
    IF UserByDID(did) = {} THEN "" ELSE (CHOOSE u \in UserByDID(did) : TRUE).username

\* the row Create inserts, with the username it read before; the user id the
\* callback's caller holds is the id of the users row of the DID it authenticated
CreateRow(did, handle, groupID, username) ==
    LET n == nextId.session
        us == UserByDID(did)
    IN [id |-> n, token |-> Tok(n), did |-> did, handle |-> handle,
        user_id |-> IF us = {} THEN 0 ELSE (CHOOSE u \in us : TRUE).id,
        username |-> username,
        group_id |-> IF groupID = NoGroup THEN Grp(n) ELSE groupID,
        created_at |-> now, expires_at |-> now + TTL, last_seen |-> now]

\* ------------------------------------------------------------------ Init
\* The store after bootstrap, SeedOwner and the service catalog load; no
\* sessions, no request answered yet.
SeedCatalog ==
    { [id |-> 1, slug |-> "s1", name |-> <<"G">>, description |-> "", url |-> <<"/", "a", "b">>,
       icon_url |-> "", admin_role |-> "admin", enabled |-> TRUE, public |-> FALSE],
      [id |-> 2, slug |-> "s2", name |-> <<"M", " ", "S">>, description |-> "",
       url |-> <<"/", "c", "a">>,
       icon_url |-> "", admin_role |-> "root", enabled |-> TRUE, public |-> FALSE] }

NoService ==
    [id |-> 0, slug |-> "", name |-> <<>>, description |-> "", url |-> <<>>,
     icon_url |-> "", admin_role |-> "", enabled |-> TRUE, public |-> FALSE]

NoResp == [op |-> "none"]

\* the request header values an in-flight /auth keeps, and the gate's service
NoReq == [host |-> <<>>, html |-> FALSE, authz |-> FALSE, gate |-> 0]

IdleCb == [pc |-> "idle", did |-> "", handle |-> "", cookie |-> NoToken,
           groupID |-> NoGroup, existingID |-> 0, userID |-> 0, username |-> "",
           req |-> NoReq, out |-> NoResp]

\* main.go: StartCleanup and startHealthPoller have run.  cleanup and poller
\* are the goroutines' positions, passes and failures count the ticker fires the
\* cleanup task has handled and those whose DELETE failed, svcs and built are
\* the poller's locals (the services listed, the address of the map built),
\* stopCleanup and healthStop tell whether the channel is closed.
TasksInit ==
    [cleanup |-> "loop", passes |-> 0, failures |-> 0, stopCleanup |-> FALSE,
     poller |-> "wait", svcs |-> {}, built |-> 0, healthStop |-> FALSE]

\* Callers of cachedHealth: position, the map ranged over and the copy made
\* (addresses; 0 is none), the keys still to copy
Readers == {1, 2}
IdleReader == [pc |-> "idle", src |-> 0, m |-> 0, todo |-> {}]

\* Maps live on a heap of MaxMaps addresses; healthData (data) is nil (0)
\* until the first swap; mu is the RWMutex; polled is the history of the maps
\* the poll iterations have produced.
MapAddrs == 1..MaxMaps
HealthInit ==
    [data |-> 0, maps |-> [a \in MapAddrs |-> <<>>],
     mu |-> [writer |-> FALSE, readers |-> {}],
     readers |-> [r \in Readers |-> IdleReader], polled |-> {}]

Init ==
    /\ users = {[id |-> 1, did |-> OwnerDID, handle |-> "", username |-> "",
                 role |-> "owner"]}
    /\ services = SeedCatalog
    /\ grants = {}
    /\ sessions = {}
    /\ nextId = [user |-> 2, grant |-> 1, session |-> 1, service |-> 3]
    /\ now = 0
    /\ cb = [p \in Procs |-> IdleCb]
    /\ pending = {}
    /\ issued = {}
    /\ resp = NoResp
    /\ tasks = TasksInit
    /\ health = HealthInit

\* ------------------------------------------------------------- /auth
\* Accept headers are sets of media types; the empty set is an absent header.
\* <<X-Forwarded-Accept, Accept>> and <<X-Forwarded-Authorization set, Authorization set>>
AcceptPairs == { <<{}, {}>>, <<{}, {"text/html"}>>,
                 <<{"application/json"}, {"text/html"}>>,
                 <<{"text/html"}, {"application/json"}>> }
AuthzPairs == { <<FALSE, FALSE>>, <<TRUE, FALSE>>, <<FALSE, TRUE>> }
Schemes == { <<>>, <<"http">> }
Uris == { <<"/", "d">> }

AuthResp(host, cookie, html, authz, gate, did, status, location, role, hdrDid, hdrUser) ==
    [op |-> "auth", host |-> host, cookie |-> cookie, html |-> html, authz |-> authz,
     gate |-> gate, did |-> did, status |-> status, location |-> location,
     role |-> role, hdrDid |-> hdrDid, hdrUser |-> hdrUser]

\* mutant of AuthNoSession: the redirect target is not URL-encoded
AuthNoSession_noEscape(host, cookie, html, authz, gate, scheme, uri) ==
    IF authz
    THEN AuthResp(host, cookie, html, authz, gate, "", 200, <<>>, "", "", "")
    ELSE IF ~html
    THEN AuthResp(host, cookie, html, authz, gate, "", 401, <<>>, "", "", "")
    ELSE LET sch == IF scheme = <<>> THEN <<"https">> ELSE scheme
             target == IF host # <<>> THEN sch \o <<":", "/", "/">> \o host \o uri ELSE <<>>
             loginURL == PublicURL \o <<"/login">> \o
                         (IF target # <<>> THEN <<"?redirect=">> \o target ELSE <<>>)
         IN AuthResp(host, cookie, html, authz, gate, "", 302, loginURL, "", "", "")

\* lines 72-110: no valid session
AuthNoSession(host, cookie, html, authz, gate, scheme, uri) ==
    IF authz
    THEN AuthResp(host, cookie, html, authz, gate, "", 200, <<>>, "", "", "")
    ELSE IF ~html
    THEN AuthResp(host, cookie, html, authz, gate, "", 401, <<>>, "", "", "")
    ELSE LET sch == IF scheme = <<>> THEN <<"https">> ELSE scheme
             target == IF host # <<>> THEN sch \o <<":", "/", "/">> \o host \o uri ELSE <<>>
             loginURL == PublicURL \o <<"/login">> \o
                         (IF target # <<>> THEN <<"?redirect=">> \o QueryEscape(target)
                          ELSE <<>>)
         IN AuthResp(host, cookie, html, authz, gate, "", 302, loginURL, "", "", "")

\* mutants of AuthSession: the empty role is let through; the lookup error is ignored
AuthSession_emptyRole(host, cookie, html, authz, gate, sess, rows, row) ==
    IF host # <<>> /\ rows = {}
    THEN IF html
         THEN AuthResp(host, cookie, html, authz, gate, sess.did, 302,
                       PublicURL \o <<"/">>, "", "", "")
         ELSE AuthResp(host, cookie, html, authz, gate, sess.did, 403, <<>>, "", "", "")
    ELSE AuthResp(host, cookie, html, authz, gate, sess.did, 200, <<>>,
                  IF host # <<>> THEN RoleOfRow(row) ELSE "", sess.did, sess.username)
AuthSession_noErr(host, cookie, html, authz, gate, sess, rows, row) ==
    IF host # <<>> /\ rows # {} /\ RoleOfRow(row) = ""
    THEN IF html
         THEN AuthResp(host, cookie, html, authz, gate, sess.did, 302,
                       PublicURL \o <<"/">>, "", "", "")
         ELSE AuthResp(host, cookie, html, authz, gate, sess.did, 403, <<>>, "", "", "")
    ELSE AuthResp(host, cookie, html, authz, gate, sess.did, 200, <<>>,
                  IF host # <<>> THEN RoleOfRow(row) ELSE "", sess.did, sess.username)

\* mutant of AuthSession: a denied session with an Authorization header is
\* passed through
AuthSession_authzWins(host, cookie, html, authz, gate, sess, rows, row) ==
    IF host # <<>> /\ (rows = {} \/ RoleOfRow(row) = "")
    THEN IF authz
         THEN AuthResp(host, cookie, html, authz, gate, sess.did, 200, <<>>, "", "", "")
         ELSE IF html
         THEN AuthResp(host, cookie, html, authz, gate, sess.did, 302,
                       PublicURL \o <<"/">>, "", "", "")
         ELSE AuthResp(host, cookie, html, authz, gate, sess.did, 403, <<>>, "", "", "")
    ELSE AuthResp(host, cookie, html, authz, gate, sess.did, 200, <<>>,
                  IF host # <<>> THEN RoleOfRow(row) ELSE "", sess.did, sess.username)

\* lines 44-68: the session validated
AuthSession(host, cookie, html, authz, gate, sess, rows, row) ==
    IF host # <<>> /\ (rows = {} \/ RoleOfRow(row) = "")
    THEN IF html
         THEN AuthResp(host, cookie, html, authz, gate, sess.did, 302,
                       PublicURL \o <<"/">>, "", "", "")
         ELSE AuthResp(host, cookie, html, authz, gate, sess.did, 403, <<>>, "", "", "")
    ELSE AuthResp(host, cookie, html, authz, gate, sess.did, 200, <<>>,
                  IF host # <<>> THEN RoleOfRow(row) ELSE "", sess.did, sess.username)

\* mutant of AuthDisabled: browsers are sent to the portal root
AuthDisabled_root(host, cookie, html, authz, svc) ==
    IF html
    THEN AuthResp(host, cookie, html, authz, svc.id, "", 302, PublicURL \o <<"/">>, "", "", "")
    ELSE AuthResp(host, cookie, html, authz, svc.id, "", 503, <<>>, "", "", "")

\* lines 26-38: the service gate fired
AuthDisabled(host, cookie, html, authz, svc) ==
    IF html
    THEN AuthResp(host, cookie, html, authz, svc.id, "", 302,
                  PublicURL \o <<"/disabled?service=">> \o QueryEscape(svc.name), "", "", "")
    ELSE AuthResp(host, cookie, html, authz, svc.id, "", 503, <<>>, "", "", "")

NoRow == [userRole |-> "", grantRole |-> "", adminRole |-> "", sid |-> 0]

\* the responses the handler can give: one per row LIMIT 1 may scan in the
\* gate's and in the policy's query
AuthVerdicts(host, cookie, html, authz, scheme, uri) ==
    LET cands == IF host # <<>> THEN ServicesByHost(host) ELSE {}
        vs == IF cookie # NoToken THEN Validate(cookie) ELSE {}
    IN UNION {
         IF svc.id # 0 /\ ~svc.enabled
         THEN {AuthDisabled(host, cookie, html, authz, svc)}
         ELSE IF vs # {}
         THEN LET sess == CHOOSE v \in vs : TRUE
                  rows == IF host # <<>> THEN PolicyRows(sess.did, host) ELSE {}
              IN {AuthSession(host, cookie, html, authz, svc.id, sess, rows, row) :
                     row \in (IF rows = {} THEN {NoRow} ELSE rows)}
         ELSE {AuthNoSession(host, cookie, html, authz, svc.id, scheme, uri)} :
         svc \in (IF cands = {} THEN {NoService} ELSE cands)}

\* the session branch is the one that called Validate with success
handleAuth(host, cookie, xfAccept, accept, xfAuthz, hAuthz, scheme, uri) ==
    LET acc == IF xfAccept = {} THEN accept ELSE xfAccept
        html == "text/html" \in acc
        authz == xfAuthz \/ hAuthz
    IN \E r \in AuthVerdicts(host, cookie, html, authz, scheme, uri) :
         /\ resp' = r
         /\ Detach(cookie, r.did # "")

Auth ==
    /\ resp = NoResp
    /\ \E host \in Hosts, cookie \in Cookies, acc \in AcceptPairs, az \in AuthzPairs,
          scheme \in Schemes, uri \in Uris :
            handleAuth(host, cookie, acc[1], acc[2], az[1], az[2], scheme, uri)
    /\ UNCHANGED <<users, services, grants, sessions, nextId, now, tasks, health, cb, issued>>

\* handleAuth step by step, one database statement at a time from the policy
\* read on.  Lines 22-43: the gate and Validate; a validated request goes on
\* to the policy read.
AuthHosts == { <<>>, <<"a">>, <<"a", "b">>, <<"c">> }

AuthBegin(p) ==
    /\ resp = NoResp
    /\ cb[p].pc = "idle"
    /\ \E host \in AuthHosts, cookie \in Cookies, html \in BOOLEAN, authz \in BOOLEAN :
         LET cands == IF host # <<>> THEN ServicesByHost(host) ELSE {}
             vs == IF cookie # NoToken THEN Validate(cookie) ELSE {}
         IN \E svc \in (IF cands = {} THEN {NoService} ELSE cands) :
              IF svc.id # 0 /\ ~svc.enabled
              THEN /\ resp' = AuthDisabled(host, cookie, html, authz, svc)
                   /\ UNCHANGED <<cb, pending>>
              ELSE IF vs = {}
              THEN /\ resp' = AuthNoSession(host, cookie, html, authz, svc.id, <<>>, <<"/", "d">>)
                   /\ UNCHANGED <<cb, pending>>
              ELSE LET sess == CHOOSE v \in vs : TRUE
                   IN /\ Detach(cookie, TRUE)
                      /\ cb' = [cb EXCEPT ![p] =
                                  [IdleCb EXCEPT !.pc = "policy", !.did = sess.did,
                                                 !.username = sess.username, !.cookie = cookie,
                                                 !.req = [host |-> host, html |-> html,
                                                          authz |-> authz, gate |-> svc.id]]]
                      /\ UNCHANGED resp
    /\ UNCHANGED <<users, services, grants, sessions, nextId, now, tasks, health, issued>>

\* the policy read joining the grants of the user on any service
AuthPolicy_anyGrant(p) ==
    /\ resp = NoResp
    /\ cb[p].pc = "policy"
    /\ LET r == cb[p].req
           sess == [did |-> cb[p].did, username |-> cb[p].username]
           rows == IF r.host = <<>> THEN {}
                   ELSE {[userRole |-> u.role, grantRole |-> GrantRole_anyService(u.id, s.id),
                          adminRole |-> s.admin_role, sid |-> s.id] :
                            u \in UserByDID(sess.did), s \in ServicesByHost(r.host)}
       IN \E row \in (IF rows = {} THEN {NoRow} ELSE rows) :
            cb' = [cb EXCEPT ![p].pc = "answer",
                             ![p].out = AuthSession(r.host, cb[p].cookie, r.html, r.authz,
                                                    r.gate, sess, rows, row)]
    /\ UNCHANGED <<users, services, grants, sessions, nextId, now, tasks, health, pending, issued, resp>>

\* Lines 44-57: GetUserServiceRole, one statement, and the answer it decides
AuthPolicy(p) ==
    /\ resp = NoResp
    /\ cb[p].pc = "policy"
    /\ LET r == cb[p].req
           sess == [did |-> cb[p].did, username |-> cb[p].username]
           rows == IF r.host # <<>> THEN PolicyRows(sess.did, r.host) ELSE {}
       IN \E row \in (IF rows = {} THEN {NoRow} ELSE rows) :
            cb' = [cb EXCEPT ![p].pc = "answer",
                             ![p].out = AuthSession(r.host, cb[p].cookie, r.html, r.authz,
                                                    r.gate, sess, rows, row)]
    /\ UNCHANGED <<users, services, grants, sessions, nextId, now, tasks, health, pending, issued, resp>>

\* Lines 58-68: the answer is written
AuthAnswer(p) ==
    /\ resp = NoResp
    /\ cb[p].pc = "answer"
    /\ resp' = cb[p].out
    /\ cb' = [cb EXCEPT ![p] = IdleCb]
    /\ UNCHANGED <<users, services, grants, sessions, nextId, now, tasks, health, pending, issued>>

\* ------------------------------------------------------ OAuth callback
\* Manager.Create as one step: insert the row, return the cookie.  (The handle
\* refresh it ends with writes a table no modelled operation reads.)
Create(did, handle, groupID, username) ==
    /\ sessions' = sessions \cup {CreateRow(did, handle, groupID, username)}
    /\ issued' = issued \cup {CreateRow(did, handle, groupID, username)}
    /\ nextId' = [nextId EXCEPT !.session = @ + 1]

\* redirect: the noknok_redirect cookie the request carried; clearRedirect: the
\* response expires it
CbRespRc(did, cookie, status, location, setCookie, created, rc, cleared) ==
    [op |-> "callback", did |-> did, cookie |-> cookie, status |-> status,
     location |-> location, setCookie |-> setCookie, created |-> created,
     redirect |-> rc, clearRedirect |-> cleared]
CbResp(did, cookie, status, location, setCookie, created) ==
    CbRespRc(did, cookie, status, location, setCookie, created, <<>>, FALSE)

LoginError == PublicURL \o <<"/login?error=">>

\* url.Parse as far as isAllowedRedirect reads its result: the scheme and the
\* host (with its port).  A string is a sequence of characters; a run of
\* letters or of digits is written as one element.
IndexOf(str, c) ==
    LET hits == {i \in 1..Len(str) : str[i] = c}
    IN IF hits = {} THEN 0 ELSE CHOOSE i \in hits : \A j \in hits : i <= j
Before(str, c) == IF IndexOf(str, c) = 0 THEN str ELSE SubSeq(str, 1, IndexOf(str, c) - 1)
After(str, i) == SubSeq(str, i + 1, Len(str))
Digits == {"8"}
\* characters that end a scheme scan or are refused in a host or in userinfo
NotInScheme == {"/", "?", "@", "\\"}
ParseURL(rawURL) ==
    LET noFrag == Before(rawURL, "#")
        c == IndexOf(noFrag, ":")
        plain == \A i \in 1..(c - 1) : noFrag[i] \notin NotInScheme
        hasScheme == c > 1 /\ plain /\ noFrag[1] \notin Digits \cup {"."}
        scheme == IF hasScheme THEN SubSeq(noFrag, 1, c - 1) ELSE <<>>
        rest == Before(IF hasScheme THEN After(noFrag, c) ELSE noFrag, "?")
        authority == IF HasPrefix(rest, <<"/", "/">>) THEN Before(After(rest, 2), "/") ELSE <<>>
        at == LastIndex(authority, "@")
        host == After(authority, at)
        colon == LastIndex(host, ":")
        port == IF colon = 0 THEN <<>> ELSE After(host, colon)
    IN [err |-> \/ c = 1
                \/ \E i \in 1..Len(authority) : authority[i] = "\\"
                \/ \E i \in 1..Len(port) : port[i] \notin Digits,
        Scheme |-> scheme, Host |-> host]

\* isAllowedRedirect with the suffix compared without its leading dot
isAllowedRedirect_bareSuffix(rawURL) ==
    LET u == ParseURL(rawURL)
    IN IF u.err THEN FALSE
       ELSE IF u.Scheme # <<"http">> /\ u.Scheme # <<"https">> THEN FALSE
       ELSE IF HasPrefix(CookieDomain, <<".">>)
            THEN LET base == After(CookieDomain, 1)
                 IN u.Host = base \/ HasSuffix(u.Host, base)
            ELSE u.Host = CookieDomain

isAllowedRedirect(rawURL) ==
    LET u == ParseURL(rawURL)
    IN IF u.err THEN FALSE
       ELSE IF u.Scheme # <<"http">> /\ u.Scheme # <<"https">> THEN FALSE
       ELSE IF HasPrefix(CookieDomain, <<".">>)
            THEN LET base == After(CookieDomain, 1)
                 IN u.Host = base \/ HasSuffix(u.Host, CookieDomain)
            ELSE u.Host = CookieDomain

\* dest of the callback's two success paths
CallbackDest(rc) ==
    IF rc # <<>> /\ isAllowedRedirect(rc) THEN rc ELSE PublicURL \o <<"/">>

\* The whole handler in one step.  did = "" is a callback the OAuth client
\* rejects; rc is the value of the redirect cookie, empty when there is none.
handleOAuthCallbackRc(did, handle, cookie, rc) ==
    IF did = "" \/ UserByDID(did) = {}
    THEN /\ resp' = CbRespRc(did, cookie, 302, LoginError, NoCookie, FALSE, rc, FALSE)
         /\ UNCHANGED <<sessions, issued, nextId, pending>>
    ELSE LET vs == IF cookie # NoToken THEN Validate(cookie) ELSE {}
             groupID == IF vs = {} THEN NoGroup ELSE (CHOOSE v \in vs : TRUE).group_id
             found == IF vs = {} THEN {} ELSE GroupHasDID(groupID, did)
         IN /\ Detach(cookie, vs # {})
            /\ IF found # {}
               THEN /\ \E ex \in found :
                         LET sw == SwitchTo(groupID, ex.id)
                         IN resp' = CbRespRc(did, cookie, 302, CallbackDest(rc),
                                       IF sw = {} THEN NoCookie
                                       ELSE MakeCookie(ex.token, ex.expires_at, CookieDomain),
                                       FALSE, rc, rc # <<>>)
                    /\ UNCHANGED <<sessions, issued, nextId>>
               ELSE /\ Create(did, handle, groupID, UsernameOf(did))
                    /\ resp' = CbRespRc(did, cookie, 302, CallbackDest(rc),
                                  MakeCookie(Tok(nextId.session), now + TTL, CookieDomain), TRUE,
                                  rc, rc # <<>>)

\* the callback of a browser that holds no redirect cookie
handleOAuthCallback(did, handle, cookie) == handleOAuthCallbackRc(did, handle, cookie, <<>>)

OAuthCallback ==
    /\ resp = NoResp
    /\ \E did \in DIDs \cup {""}, handle \in Handles, cookie \in Cookies :
            handleOAuthCallback(did, handle, cookie)
    /\ UNCHANGED <<users, services, grants, now, tasks, health, cb>>

\* The same handler as the requests of concurrent browsers run it: one store
\* access per step, the handler's locals in cb[p].
CbBegin(p) ==
    /\ resp = NoResp
    /\ cb[p].pc = "idle"
    /\ nextId.session + Cardinality({q \in Procs : cb[q].pc # "idle"}) <= MaxSessions + 1
    /\ \E did \in {OwnerDID, "did:a"}, cookie \in {NoToken, Tok(1), Tok(2)} :
         cb' = [cb EXCEPT ![p] = [IdleCb EXCEPT !.pc = "exists", !.did = did,
                                                !.handle = "h1", !.cookie = cookie]]
    /\ UNCHANGED <<users, services, grants, sessions, nextId, now, tasks, health, pending, issued, resp>>

\* the callback going on without the answer of UserExists
CbUserExists_unchecked(p) ==
    /\ resp = NoResp
    /\ cb[p].pc = "exists"
    /\ cb' = [cb EXCEPT ![p].pc = "validate"]
    /\ UNCHANGED resp
    /\ UNCHANGED <<users, services, grants, sessions, nextId, now, tasks, health, pending, issued>>

\* lines 70-78: UserExists
CbUserExists(p) ==
    /\ resp = NoResp
    /\ cb[p].pc = "exists"
    /\ IF UserByDID(cb[p].did) = {}
       THEN /\ resp' = CbResp(cb[p].did, cb[p].cookie, 302, LoginError, NoCookie, FALSE)
            /\ cb' = [cb EXCEPT ![p] = IdleCb]
       ELSE /\ cb' = [cb EXCEPT ![p].pc = "validate"]
            /\ UNCHANGED resp
    /\ UNCHANGED <<users, services, grants, sessions, nextId, now, tasks, health, pending, issued>>

\* lines 82-84: the cookie's session gives the group
CbValidate(p) ==
    /\ resp = NoResp
    /\ cb[p].pc = "validate"
    /\ LET vs == IF cb[p].cookie # NoToken THEN Validate(cb[p].cookie) ELSE {}
       IN /\ Detach(cb[p].cookie, vs # {})
          /\ cb' = IF vs = {}
                   THEN [cb EXCEPT ![p].pc = "create"]
                   ELSE [cb EXCEPT ![p].pc = "hasdid",
                                   ![p].groupID = (CHOOSE v \in vs : TRUE).group_id]
    /\ UNCHANGED <<users, services, grants, sessions, nextId, now, tasks, health, issued, resp>>

\* line 87: GroupHasDID
CbGroupHasDID(p) ==
    /\ resp = NoResp
    /\ cb[p].pc = "hasdid"
    /\ LET found == GroupHasDID(cb[p].groupID, cb[p].did)
       IN IF found = {}
          THEN cb' = [cb EXCEPT ![p].pc = "create"]
          ELSE \E ex \in found : cb' = [cb EXCEPT ![p].pc = "switch", ![p].existingID = ex.id]
    /\ UNCHANGED <<users, services, grants, sessions, nextId, now, tasks, health, pending, issued, resp>>

\* lines 88-103: SwitchTo and the redirect
CbSwitchTo(p) ==
    /\ resp = NoResp
    /\ cb[p].pc = "switch"
    /\ LET sw == SwitchTo(cb[p].groupID, cb[p].existingID)
       IN resp' = CbResp(cb[p].did, cb[p].cookie, 302, PublicURL \o <<"/">>,
                         IF sw = {} THEN NoCookie
                         ELSE MakeCookie((CHOOSE x \in sw : TRUE).token,
                                         (CHOOSE x \in sw : TRUE).expires_at, CookieDomain),
                         FALSE)
    /\ cb' = [cb EXCEPT ![p] = IdleCb]
    /\ UNCHANGED <<users, services, grants, sessions, nextId, now, tasks, health, pending, issued>>

\* line 108, Create's first statement: the username is read
CbCreateRead(p) ==
    /\ resp = NoResp
    /\ cb[p].pc = "create"
    /\ cb' = [cb EXCEPT ![p].pc = "insert", ![p].username = UsernameOf(cb[p].did)]
    /\ UNCHANGED <<users, services, grants, sessions, nextId, now, tasks, health, pending, issued, resp>>

\* lines 108-131: Create's insert and the redirect
CbCreate(p) ==
    /\ resp = NoResp
    /\ cb[p].pc = "insert"
    /\ Create(cb[p].did, cb[p].handle, cb[p].groupID, cb[p].username)
    /\ resp' = CbResp(cb[p].did, cb[p].cookie, 302, PublicURL \o <<"/">>,
                      MakeCookie(Tok(nextId.session), now + TTL, CookieDomain), TRUE)
    /\ cb' = [cb EXCEPT ![p] = IdleCb]
    /\ UNCHANGED <<users, services, grants, now, tasks, health, pending>>

\* ----------------------------------------------------------- admin API
\* requireAdmin: status 0 lets the handler run with the caller's users row
NoUser == [id |-> 0, did |-> "", handle |-> "", username |-> "", role |-> ""]

\* requireAdmin trusting a live session whose users row is gone
requireAdmin_rowOptional(cookie) ==
    IF cookie = NoToken THEN [status |-> 401, user |-> NoUser, validated |-> FALSE]
    ELSE IF Validate(cookie) = {} THEN [status |-> 401, user |-> NoUser, validated |-> FALSE]
    ELSE LET sess == CHOOSE v \in Validate(cookie) : TRUE
             us == UserByDID(sess.did)
         IN IF us = {} THEN [status |-> 0, user |-> [NoUser EXCEPT !.role = "admin"],
                             validated |-> TRUE]
            ELSE LET u == CHOOSE x \in us : TRUE
                 IN IF u.role # "owner" /\ u.role # "admin"
                    THEN [status |-> 403, user |-> u, validated |-> TRUE]
                    ELSE [status |-> 0, user |-> u, validated |-> TRUE]

\* mutant of requireAdmin: the caller's role is not looked at
requireAdmin_anyRole(cookie) ==
    IF cookie = NoToken THEN [status |-> 401, user |-> NoUser, validated |-> FALSE]
    ELSE IF Validate(cookie) = {} THEN [status |-> 401, user |-> NoUser, validated |-> FALSE]
    ELSE LET sess == CHOOSE v \in Validate(cookie) : TRUE
             us == UserByDID(sess.did)
         IN IF us = {} THEN [status |-> 401, user |-> NoUser, validated |-> TRUE]
            ELSE [status |-> 0, user |-> CHOOSE x \in us : TRUE, validated |-> TRUE]

requireAdmin(cookie) ==
    IF cookie = NoToken THEN [status |-> 401, user |-> NoUser, validated |-> FALSE]
    ELSE IF Validate(cookie) = {} THEN [status |-> 401, user |-> NoUser, validated |-> FALSE]
    ELSE LET sess == CHOOSE v \in Validate(cookie) : TRUE
             us == UserByDID(sess.did)
         IN IF us = {} THEN [status |-> 401, user |-> NoUser, validated |-> TRUE]
            ELSE LET u == CHOOSE x \in us : TRUE
                 IN IF u.role # "owner" /\ u.role # "admin"
                    THEN [status |-> 403, user |-> u, validated |-> TRUE]
                    ELSE [status |-> 0, user |-> u, validated |-> TRUE]


\* target: the users row the request names (NoUser if none), as it was before
AdminResp(op, cookie, status, caller, target, reqRole) ==
    [op |-> op, cookie |-> cookie, status |-> status, callerId |-> caller.id, callerRole |-> caller.role,
     targetId |-> target.id, targetDid |-> target.did, targetRole |-> target.role,
     reqRole |-> reqRole]

RowOf(set) == IF set = {} THEN NoUser ELSE CHOOSE x \in set : TRUE

\* handles a create request may carry: empty, one that does not resolve, or
\* one that resolves to the DID
ReqHandles == {"", "unresolvable"} \cup DIDs

\* mutant of CreateUserStatus: the caller's role is not compared with the role asked for
CreateUserStatus_anyRole(caller, reqHandle, role) ==
    IF reqHandle = "" THEN 400
    ELSE IF role \notin Roles THEN 400
    ELSE IF reqHandle = "unresolvable" THEN 400
    ELSE IF UserByDID(reqHandle) # {} THEN 409
    ELSE 201

CreateUserStatus(caller, reqHandle, role) ==
    IF reqHandle = "" THEN 400
    ELSE IF caller.role # "owner" /\ role # "user" THEN 403
    ELSE IF role \notin Roles THEN 400
    ELSE IF reqHandle = "unresolvable" THEN 400
    ELSE IF UserByDID(reqHandle) # {} THEN 409
    ELSE 201

handleCreateUser(cookie, reqHandle, reqRole) ==
    LET ra == requireAdmin(cookie)
        role == IF reqRole = "" THEN "user" ELSE reqRole
        st == IF ra.status # 0 THEN ra.status ELSE CreateUserStatus(ra.user, reqHandle, role)
        new == [id |-> nextId.user, did |-> reqHandle, handle |-> "h1", username |-> "",
                role |-> role]
    IN /\ Detach(cookie, ra.validated)
       /\ resp' = AdminResp("createUser", cookie, st, ra.user,
                            IF st = 201 THEN new ELSE [NoUser EXCEPT !.did = reqHandle], role)
       /\ IF st = 201
          THEN /\ nextId.user <= MaxUserId
               /\ users' = users \cup {new}
               /\ nextId' = [nextId EXCEPT !.user = @ + 1]
          ELSE UNCHANGED <<users, nextId>>
       /\ UNCHANGED <<services, grants, sessions, now, tasks, health, cb, issued>>

\* mutant of UpdateUserRoleStatus: the seed owner is not looked up
UpdateUserRoleStatus_noSeed(caller, id, reqRole) ==
    IF reqRole \notin Roles THEN 400
    ELSE IF caller.role # "owner" /\ reqRole # "user" THEN 403
    ELSE 200

UpdateUserRoleStatus(caller, id, reqRole) ==
    IF reqRole \notin Roles THEN 400
    ELSE IF caller.role # "owner" /\ reqRole # "user" THEN 403
    ELSE IF \E u \in users : u.id = id /\ u.did = OwnerDID THEN 403
    ELSE 200

handleUpdateUserRole(cookie, id, reqRole) ==
    LET ra == requireAdmin(cookie)
        st == IF ra.status # 0 THEN ra.status ELSE UpdateUserRoleStatus(ra.user, id, reqRole)
    IN /\ Detach(cookie, ra.validated)
       /\ resp' = AdminResp("updateUserRole", cookie, st, ra.user, RowOf(UserById(id)), reqRole)
       /\ users' = IF st = 200
                   THEN {IF u.id = id THEN [u EXCEPT !.role = reqRole] ELSE u : u \in users}
                   ELSE users
       /\ UNCHANGED <<services, grants, sessions, nextId, now, tasks, health, cb, issued>>

\* grants.granted_by references users(id) with no ON DELETE action: the delete
\* fails while a grant to another user still names the row as its grantor
DeleteUserFails(id) == \E g \in grants : g.granted_by = id /\ g.user_id # id

DeleteUserStatus(caller, id) ==
    IF id = caller.id THEN 403
    ELSE IF \E u \in users : u.id = id /\ u.did = OwnerDID THEN 403
    ELSE IF \E u \in users : u.id = id /\ caller.role # "owner" /\ u.role # "user" THEN 403
    ELSE IF DeleteUserFails(id) THEN 500
    ELSE 204

handleDeleteUser(cookie, id) ==
    LET ra == requireAdmin(cookie)
        st == IF ra.status # 0 THEN ra.status ELSE DeleteUserStatus(ra.user, id)
    IN /\ Detach(cookie, ra.validated)
       /\ resp' = AdminResp("deleteUser", cookie, st, ra.user, RowOf(UserById(id)), "")
       /\ IF st = 204
          THEN /\ users' = {u \in users : u.id # id}
               /\ grants' = {g \in grants : g.user_id # id}
          ELSE UNCHANGED <<users, grants>>
       /\ UNCHANGED <<services, sessions, nextId, now, tasks, health, cb, issued>>

\* usernames a request may carry; the last does not match validUsername
Usernames == {"", "alice", "a b"}
validUsername(name) == name = "alice"

\* idx_users_username_nonempty: the UPDATE would give two rows one non-empty
\* username
UsernameTaken(id, name) ==
    /\ name # ""
    /\ UserById(id) # {}
    /\ \E u \in users : u.id # id /\ u.username = name

\* handleUpdateUserUsername up to UpdateUserUsername's first statement:
\* UPDATE users SET username = $1 WHERE id = $2, whose error answers 500
handleUsernameBegin(p, cookie, id, name) ==
         LET ra == requireAdmin(cookie)
             st == IF ra.status # 0 THEN ra.status
                   ELSE IF name # "" /\ ~validUsername(name) THEN 400
                   ELSE IF UsernameTaken(id, name) THEN 500
                   ELSE 0
         IN /\ Detach(cookie, ra.validated)
            /\ IF st # 0
               THEN /\ resp' = AdminResp("updateUsername", cookie, st, ra.user,
                                         RowOf(UserById(id)), name)
                    /\ UNCHANGED <<users, cb>>
               ELSE /\ users' = {IF u.id = id THEN [u EXCEPT !.username = name] ELSE u :
                                   u \in users}
                    /\ cb' = [cb EXCEPT ![p] = [IdleCb EXCEPT !.pc = "propagate",
                                                   !.cookie = cookie, !.userID = id,
                                                   !.did = ra.user.did,
                                                   !.username = name]]
                    /\ UNCHANGED resp

UsernameBegin(p) ==
    /\ resp = NoResp
    /\ cb[p].pc = "idle"
    /\ \E cookie \in {NoToken, Tok(1)}, name \in Usernames :
         handleUsernameBegin(p, cookie, 1, name)
    /\ UNCHANGED <<services, grants, sessions, nextId, now, tasks, health, issued>>

\* UpdateUserUsername's second statement, UPDATE sessions SET username = $1
\* WHERE did = (SELECT did FROM users WHERE id = $2) AND expires_at > now(),
\* and the 200
UsernamePropagate(p) ==
    /\ resp = NoResp
    /\ cb[p].pc = "propagate"
    /\ sessions' = {IF v.expires_at > now /\ \E u \in UserById(cb[p].userID) : u.did = v.did
                    THEN [v EXCEPT !.username = cb[p].username] ELSE v : v \in sessions}
    /\ resp' = AdminResp("updateUsername", cb[p].cookie, 200, RowOf(UserByDID(cb[p].did)),
                         RowOf(UserById(cb[p].userID)), cb[p].username)
    /\ cb' = [cb EXCEPT ![p] = IdleCb]
    /\ UNCHANGED <<users, services, grants, nextId, now, tasks, health, pending, issued>>

UserIds == 1..MaxUserId

CreateUserReq ==
    /\ resp = NoResp
    /\ \E cookie \in Cookies, h \in ReqHandles, r \in ReqRoles : handleCreateUser(cookie, h, r)
UpdateUserRoleReq ==
    /\ resp = NoResp
    /\ \E cookie \in Cookies, id \in UserIds, r \in ReqRoles : handleUpdateUserRole(cookie, id, r)
DeleteUserReq ==
    /\ resp = NoResp
    /\ \E cookie \in Cookies, id \in UserIds : handleDeleteUser(cookie, id)

\* ----------------------------------------------------- services, grants
SvcResp(op, cookie, status, caller, id, flag) ==
    [op |-> op, cookie |-> cookie, status |-> status, callerId |-> caller.id, callerRole |-> caller.role,
     targetId |-> id, flag |-> flag]

\* UPDATE services SET enabled = NOT enabled ... RETURNING enabled; no row is an error
handleToggleServiceEnabled(cookie, id) ==
    LET ra == requireAdmin(cookie)
        hit == {s \in services : s.id = id}
        st == IF ra.status # 0 THEN ra.status ELSE IF hit = {} THEN 500 ELSE 200
    IN /\ Detach(cookie, ra.validated)
       /\ resp' = SvcResp("toggleEnabled", cookie, st, ra.user, id,
                          IF st = 200 THEN ~(CHOOSE s \in hit : TRUE).enabled ELSE FALSE)
       /\ services' = IF st = 200
                      THEN {IF s.id = id THEN [s EXCEPT !.enabled = ~@] ELSE s : s \in services}
                      ELSE services
       /\ UNCHANGED <<users, grants, sessions, nextId, now, tasks, health, cb, issued>>

GrantResp(op, cookie, status, caller, uid, sid, role) ==
    [op |-> op, cookie |-> cookie, status |-> status, callerId |-> caller.id, callerRole |-> caller.role,
     userId |-> uid, serviceId |-> sid, role |-> role]

\* INSERT ... ON CONFLICT (user_id, service_id) DO UPDATE SET role; a missing
\* user or service violates the foreign key
CreateGrantStatus(uid, sid) ==
    IF uid = 0 \/ sid = 0 THEN 400
    ELSE IF UserById(uid) = {} \/ {s \in services : s.id = sid} = {} THEN 500
    ELSE 201

\* The upsert as a plain INSERT with no conflict target
CreateGrant_plainInsert(uid, sid, role, grantedBy) ==
    grants \cup {[id |-> nextId.grant, user_id |-> uid, service_id |-> sid,
                  role |-> role, granted_by |-> grantedBy]}

\* db.CreateGrant: one statement; the rows of grants after it
CreateGrant(uid, sid, role, grantedBy) ==
    LET old == {g \in grants : g.user_id = uid /\ g.service_id = sid}
    IN IF old = {}
       THEN grants \cup {[id |-> nextId.grant, user_id |-> uid, service_id |-> sid,
                          role |-> role, granted_by |-> grantedBy]}
       ELSE {IF g \in old THEN [g EXCEPT !.role = role] ELSE g : g \in grants}

\* handleCreateGrant with the grant ids it may hand out capped at maxId
handleCreateGrantUpTo(maxId, cookie, uid, sid, reqRole) ==
    LET ra == requireAdmin(cookie)
        role == IF reqRole = "" THEN "user" ELSE reqRole
        st == IF ra.status # 0 THEN ra.status ELSE CreateGrantStatus(uid, sid)
        rows == CreateGrant(uid, sid, role, ra.user.id)
        inserted == \E g \in rows : g.id = nextId.grant
    IN /\ Detach(cookie, ra.validated)
       /\ resp' = GrantResp("createGrant", cookie, st, ra.user, uid, sid, role)
       /\ IF st = 201
          THEN /\ inserted => nextId.grant <= maxId
               /\ grants' = rows
               /\ nextId' = [nextId EXCEPT !.grant = IF inserted THEN @ + 1 ELSE @]
          ELSE UNCHANGED <<grants, nextId>>
       /\ UNCHANGED <<users, services, sessions, now, tasks, health, cb, issued>>

handleCreateGrant(cookie, uid, sid, reqRole) ==
    handleCreateGrantUpTo(MaxGrantId, cookie, uid, sid, reqRole)

handleDeleteGrant(cookie, id) ==
    LET ra == requireAdmin(cookie)
        st == IF ra.status # 0 THEN ra.status ELSE 204
    IN /\ Detach(cookie, ra.validated)
       /\ resp' = GrantResp("deleteGrant", cookie, st, ra.user, 0, 0, "")
       /\ grants' = IF st = 204 THEN {g \in grants : g.id # id} ELSE grants
       /\ UNCHANGED <<users, services, sessions, nextId, now, tasks, health, cb, issued>>

\* The service delete without the cascade to its grants
handleDeleteService_noCascade(cookie, id) ==
    LET ra == requireAdmin(cookie)
        st == IF ra.status # 0 THEN ra.status ELSE 204
    IN /\ Detach(cookie, ra.validated)
       /\ resp' = SvcResp("deleteService", cookie, st, ra.user, id, FALSE)
       /\ services' = IF st = 204 THEN {s \in services : s.id # id} ELSE services
       /\ UNCHANGED <<users, grants, sessions, nextId, now, tasks, health, cb, issued>>

\* DELETE FROM services WHERE id = $1: no row is no error; grants.service_id
\* is ON DELETE CASCADE
handleDeleteService(cookie, id) ==
    LET ra == requireAdmin(cookie)
        st == IF ra.status # 0 THEN ra.status ELSE 204
    IN /\ Detach(cookie, ra.validated)
       /\ resp' = SvcResp("deleteService", cookie, st, ra.user, id, FALSE)
       /\ services' = IF st = 204 THEN {s \in services : s.id # id} ELSE services
       /\ grants' = IF st = 204 THEN {g \in grants : g.service_id # id} ELSE grants
       /\ UNCHANGED <<users, sessions, nextId, now, tasks, health, cb, issued>>

ServiceIds == {1, 2}
GrantRoles == {"", "editor"}

ToggleEnabledReq ==
    /\ resp = NoResp
    /\ \E cookie \in Cookies, id \in ServiceIds : handleToggleServiceEnabled(cookie, id)
CreateGrantReq ==
    /\ resp = NoResp
    /\ \E cookie \in Cookies, uid \in UserIds, sid \in ServiceIds, r \in GrantRoles :
        handleCreateGrant(cookie, uid, sid, r)
DeleteGrantReq ==
    /\ resp = NoResp
    /\ \E cookie \in Cookies, id \in 1..MaxGrantId : handleDeleteGrant(cookie, id)

\* --------------------------------------------------------------- relay
\* values of the r query parameter and of the request's Host header
Redirects == { <<>>, <<"/">>, <<"/", "x">>, <<"x">>, <<"/", "/", "e">>, <<"/", "\\", "e">>,
               <<"h", ":", "/", "/", "e">> }
RelayHosts == { <<"k">>, <<"g", ".", "p">>, <<"k", ":", "8">>, <<"x">> }

handleRelay(token, redirect, host) ==
    IF token = NoToken
    THEN /\ resp' = [op |-> "relay", token |-> token, r |-> redirect, host |-> host,
                     valid |-> FALSE, status |-> 400, location |-> <<>>,
                     setCookie |-> NoCookie]
         /\ UNCHANGED pending
    ELSE LET vs == Validate(token)
         IN IF vs = {}
            THEN /\ resp' = [op |-> "relay", token |-> token, r |-> redirect, host |-> host,
                             valid |-> FALSE, status |-> 302,
                             location |-> PublicURL \o <<"/login">>, setCookie |-> NoCookie]
                 /\ UNCHANGED pending
            ELSE LET sess == CHOOSE v \in vs : TRUE
                 IN /\ Detach(token, TRUE)
                    /\ resp' = [op |-> "relay", token |-> token, r |-> redirect,
                                host |-> host, valid |-> TRUE, status |-> 302,
                                location |-> IF redirect = <<>> \/ ~HasPrefix(redirect, <<"/">>)
                                             THEN <<"/">> ELSE redirect,
                                setCookie |-> MakeCookie(token, sess.expires_at,
                                                         DomainForHost(host))]

Relay ==
    /\ resp = NoResp
    /\ \E token \in Cookies, redirect \in Redirects, host \in RelayHosts :
         handleRelay(token, redirect, host)
    /\ UNCHANGED <<users, services, grants, sessions, nextId, now, tasks, health, cb, issued>>

\* --------------------------------------------------- session operations
\* Manager.Validate as its callers see it: the session returned, or not-found
ValidateOp ==
    /\ resp = NoResp
    /\ \E token \in Cookies \ {NoToken} :
         LET vs == Validate(token)
         IN /\ resp' = [op |-> "validate", token |-> token, found |-> vs # {},
                        sess |-> {[token |-> v.token, did |-> v.did, handle |-> v.handle,
                                   group_id |-> v.group_id, expires_at |-> v.expires_at] :
                                    v \in vs}]
            /\ Detach(token, vs # {})
    /\ UNCHANGED <<users, services, grants, sessions, nextId, now, tasks, health, cb, issued>>

\* mutant of LastSeenUpdate: the WHERE clause is missing
LastSeenUpdate_allRows ==
    /\ resp = NoResp
    /\ \E token \in pending, ok \in BOOLEAN :
         /\ pending' = pending \ {token}
         /\ sessions' = IF ok THEN {[s EXCEPT !.last_seen = now] : s \in sessions}
                        ELSE sessions
    /\ UNCHANGED <<users, services, grants, nextId, now, tasks, health, cb, issued, resp>>

\* mutant of LastSeenUpdate: the update inserts the row when it is missing
LastSeenUpdate_upsert ==
    /\ resp = NoResp
    /\ \E token \in pending, ok \in BOOLEAN :
         /\ pending' = pending \ {token}
         /\ sessions' = IF ok
                        THEN {IF s.token = token THEN [s EXCEPT !.last_seen = now] ELSE s :
                                s \in sessions}
                             \cup {[i EXCEPT !.last_seen = now] :
                                     i \in {x \in issued : /\ x.token = token
                                                            /\ \A s \in sessions : s.token # token}}
                        ELSE sessions
    /\ UNCHANGED <<users, services, grants, nextId, now, tasks, health, cb, issued, resp>>

\* the detached goroutine: UPDATE sessions SET last_seen = now() WHERE token = $1,
\* or its timeout
LastSeenUpdate ==
    /\ resp = NoResp
    /\ \E token \in pending, ok \in BOOLEAN :
         /\ pending' = pending \ {token}
         /\ sessions' = IF ok
                        THEN {IF s.token = token THEN [s EXCEPT !.last_seen = now] ELSE s :
                                s \in sessions}
                        ELSE sessions
    /\ UNCHANGED <<users, services, grants, nextId, now, tasks, health, cb, issued, resp>>

\* mutant of handleLogout: only the cookie's own session is destroyed
handleLogout_oneSession(cookie) ==
    LET vs == IF cookie # NoToken THEN Validate(cookie) ELSE {}
    IN /\ Detach(cookie, vs # {})
       /\ sessions' = IF cookie = NoToken THEN sessions
                      ELSE {s \in sessions : s.token # cookie}
       /\ resp' = [op |-> "logout", cookie |-> cookie, status |-> 302,
                   location |-> PublicURL \o <<"/login">>, setCookie |-> ClearCookie]

\* DestroyGroup, or Destroy for a cookie that does not validate
handleLogout(cookie) ==
    LET vs == IF cookie # NoToken THEN Validate(cookie) ELSE {}
    IN /\ Detach(cookie, vs # {})
       /\ sessions' = IF cookie = NoToken THEN sessions
                      ELSE IF vs # {} /\ (CHOOSE v \in vs : TRUE).group_id # NoGroup
                      THEN {s \in sessions : s.group_id # (CHOOSE v \in vs : TRUE).group_id}
                      ELSE {s \in sessions : s.token # cookie}
       /\ resp' = [op |-> "logout", cookie |-> cookie, status |-> 302,
                   location |-> PublicURL \o <<"/login">>, setCookie |-> ClearCookie]

Logout ==
    /\ resp = NoResp
    /\ \E cookie \in Cookies : handleLogout(cookie)
    /\ UNCHANGED <<users, services, grants, nextId, now, tasks, health, cb, issued>>

\* the StartCleanup tick: DELETE FROM sessions WHERE expires_at <= now()
Cleanup ==
    /\ resp = NoResp
    /\ sessions' = {s \in sessions : s.expires_at > now}
    /\ UNCHANGED <<users, services, grants, nextId, now, tasks, health, cb, pending, issued, resp>>

Tick ==
    /\ resp = NoResp
    /\ now < MaxTime
    /\ pending = {}
    /\ now' = now + 1
    /\ UNCHANGED <<users, services, grants, sessions, nextId, cb, pending, issued, resp,
                   tasks, health>>

\* the response leaves the server; requests are answered one at a time
Respond ==
    /\ resp # NoResp
    /\ resp' = NoResp
    /\ UNCHANGED <<users, services, grants, sessions, nextId, now, tasks, health, cb, pending, issued>>

\* ------------------------------------------------------- specifications
OwnerCookie == Tok(1)

\* The forward-auth decision, over stores built by logins and the owner's
\* admin requests
AuthLogin ==
    /\ resp = NoResp
    /\ nextId.session <= MaxSessions
    /\ \E did \in {OwnerDID, "did:a"} :
         /\ \A v \in sessions : v.did # did
         /\ handleOAuthCallback(did, "h1", NoToken)
    /\ UNCHANGED <<users, services, grants, now, tasks, health, cb>>
AuthCreateUser ==
    /\ resp = NoResp
    /\ \E r \in {"user", "admin"} : handleCreateUser(OwnerCookie, "did:a", r)
AuthUpdateUserRole ==
    /\ resp = NoResp
    /\ \E id \in UserIds \ {1}, r \in Roles : handleUpdateUserRole(OwnerCookie, id, r)
AuthDeleteUser ==
    /\ resp = NoResp
    /\ \E id \in UserIds \ {1} : handleDeleteUser(OwnerCookie, id)
AuthToggle ==
    /\ resp = NoResp
    /\ \E id \in ServiceIds : handleToggleServiceEnabled(OwnerCookie, id)
AuthCreateGrant ==
    /\ resp = NoResp
    /\ \E uid \in UserIds \ {1}, sid \in ServiceIds, r \in GrantRoles :
         handleCreateGrant(OwnerCookie, uid, sid, r)

NextAuth ==
    \/ Auth
    \/ AuthLogin
    \/ AuthCreateUser
    \/ AuthUpdateUserRole
    \/ AuthDeleteUser
    \/ AuthToggle
    \/ AuthCreateGrant
    \/ Respond

SpecAuth == Init /\ [][NextAuth]_vars

\* Session lifetime: logins of the owner, validation, the relay, logout, the
\* clock and the cleanup pass
SessLogin ==
    /\ resp = NoResp
    /\ nextId.session <= MaxSessions
    /\ \E cookie \in Cookies : handleOAuthCallback(OwnerDID, "h1", cookie)
    /\ UNCHANGED <<users, services, grants, now, tasks, health, cb>>

NextSess ==
    \/ SessLogin
    \/ ValidateOp
    \/ Relay
    \/ LastSeenUpdate
    \/ Logout
    \/ Cleanup
    \/ Tick
    \/ Respond

SpecSess == Init /\ [][NextSess]_vars

\* Concurrent OAuth callbacks, with the owner adding a user and logouts
ConcCreateUser ==
    /\ resp = NoResp
    /\ handleCreateUser(OwnerCookie, "did:a", "user")
ConcLogout ==
    /\ resp = NoResp
    /\ \E cookie \in {Tok(1), Tok(2)} : handleLogout(cookie)
    /\ UNCHANGED <<users, services, grants, nextId, now, tasks, health, cb, issued>>

NextConc ==
    \/ \E p \in Procs : CbBegin(p)
    \/ \E p \in Procs : CbUserExists(p)
    \/ \E p \in Procs : CbValidate(p)
    \/ \E p \in Procs : CbGroupHasDID(p)
    \/ \E p \in Procs : CbSwitchTo(p)
    \/ \E p \in Procs : CbCreateRead(p)
    \/ \E p \in Procs : CbCreate(p)
    \/ ConcCreateUser
    \/ ConcLogout
    \/ Respond

SpecConc == Init /\ [][NextConc]_vars

\* The admin API's user operations, called with every cookie and every request
\* body, over stores built by logins and grants
AdminLogin ==
    /\ resp = NoResp
    /\ nextId.session <= MaxSessions
    /\ \E did \in DIDs :
         /\ \A v \in sessions : v.did # did
         /\ handleOAuthCallback(did, "h1", NoToken)
    /\ UNCHANGED <<users, services, grants, now, tasks, health, cb>>
AdminCreateGrant ==
    /\ resp = NoResp
    /\ \E cookie \in {Tok(1), Tok(2)}, uid \in UserIds :
         handleCreateGrant(cookie, uid, 1, "editor")

NextAdmin ==
    \/ AdminLogin
    \/ CreateUserReq
    \/ UpdateUserRoleReq
    \/ DeleteUserReq
    \/ AdminCreateGrant
    \/ Respond

SpecAdmin == Init /\ [][NextAdmin]_vars

\* The admin API behind its middleware: every handler called with every
\* cookie, while users come and go, roles change and sessions expire
GuardLogin ==
    /\ resp = NoResp
    /\ nextId.session <= MaxSessions
    /\ \E did \in {OwnerDID, "did:a"} :
         /\ \A v \in sessions : v.did # did
         /\ handleOAuthCallback(did, "h1", NoToken)
    /\ UNCHANGED <<users, services, grants, now, tasks, health, cb>>
GuardCreateUser ==
    /\ resp = NoResp
    /\ \E cookie \in Cookies, r \in {"user", "admin"} : handleCreateUser(cookie, "did:a", r)
GuardUpdateUserRole ==
    /\ resp = NoResp
    /\ \E cookie \in Cookies, r \in {"user", "admin"} : handleUpdateUserRole(cookie, 2, r)
GuardToggle ==
    /\ resp = NoResp
    /\ \E cookie \in Cookies : handleToggleServiceEnabled(cookie, 1)
GuardCreateGrant ==
    /\ resp = NoResp
    /\ \E cookie \in Cookies : handleCreateGrant(cookie, 2, 1, "editor")

NextGuard ==
    \/ GuardLogin
    \/ GuardCreateUser
    \/ GuardUpdateUserRole
    \/ DeleteUserReq
    \/ GuardToggle
    \/ GuardCreateGrant
    \/ DeleteGrantReq
    \/ LastSeenUpdate
    \/ Tick
    \/ Respond

SpecGuard == Init /\ [][NextGuard]_vars

\* The two host queries called directly, with every DID and every forwarded
\* host, ports included, over stores built by the owner's admin requests
PortHosts == { <<"a", "b", ":", "8">>, <<"c", ":", "8">> }
PolicyHosts == (Hosts \ {<<>>}) \cup PortHosts

\* GetUserServiceRole(did, host): the role of the one row scanned, or the
\* no-rows error when the DID has no users row
PolicyOp ==
    /\ resp = NoResp
    /\ \E did \in DIDs, host \in PolicyHosts :
         LET rows == PolicyRows(did, host)
         IN \E row \in (IF rows = {} THEN {NoRow} ELSE rows) :
              resp' = [op |-> "policy", did |-> did, host |-> host, err |-> rows = {},
                       sid |-> row.sid,
                       role |-> IF rows = {} THEN "" ELSE RoleOfRow(row)]
    /\ UNCHANGED <<users, services, grants, sessions, nextId, now, tasks, health, cb, pending, issued>>

\* GetServiceByHost(host): the one row scanned, or the no-rows error
GateOp ==
    /\ resp = NoResp
    /\ \E host \in PolicyHosts :
         LET ss == ServicesByHost(host)
         IN \E svc \in (IF ss = {} THEN {NoService} ELSE ss) :
              resp' = [op |-> "gate", host |-> host, err |-> ss = {},
                       sid |-> svc.id, enabled |-> svc.enabled]
    /\ UNCHANGED <<users, services, grants, sessions, nextId, now, tasks, health, cb, pending, issued>>

NextPolicy ==
    \/ PolicyOp
    \/ GateOp
    \/ AuthLogin
    \/ AuthCreateUser
    \/ AuthUpdateUserRole
    \/ AuthDeleteUser
    \/ AuthToggle
    \/ AuthCreateGrant
    \/ Respond

SpecPolicy == Init /\ [][NextPolicy]_vars

\* Username changes by an admin while browsers log in: every request one
\* store access per step
NextName ==
    \/ \E p \in Procs : CbBegin(p)
    \/ \E p \in Procs : CbUserExists(p)
    \/ \E p \in Procs : CbValidate(p)
    \/ \E p \in Procs : CbGroupHasDID(p)
    \/ \E p \in Procs : CbSwitchTo(p)
    \/ \E p \in Procs : CbCreateRead(p)
    \/ \E p \in Procs : CbCreate(p)
    \/ \E p \in Procs : UsernameBegin(p)
    \/ \E p \in Procs : UsernamePropagate(p)
    \/ Respond

SpecName == Init /\ [][NextName]_vars

\* ------------------------------------------------ session group operations
Groups == {Grp(n) : n \in 1..MaxSessions}
SessionIds == 1..(MaxSessions + 1)

\* Manager.SwitchTo as its callers see it: a cookie or the not-found error
\* SwitchTo handing out a cookie that lasts a full TTL from now
SwitchToOp_freshExpiry ==
    /\ resp = NoResp
    /\ \E groupID \in Groups \cup {NoGroup}, id \in SessionIds :
         LET sw == SwitchTo(groupID, id)
         IN \E x \in (IF sw = {} THEN {NoCookie} ELSE
                            {MakeCookie(t.token, now + TTL, CookieDomain) : t \in sw}) :
              resp' = [op |-> "switchTo", group |-> groupID, id |-> id, err |-> sw = {},
                       cookie |-> x]
    /\ UNCHANGED <<users, services, grants, sessions, nextId, now, tasks, health, cb, pending, issued>>

SwitchToOp ==
    /\ resp = NoResp
    /\ \E groupID \in Groups \cup {NoGroup}, id \in SessionIds :
         LET sw == SwitchTo(groupID, id)
         IN \E x \in (IF sw = {} THEN {NoCookie} ELSE
                            {MakeCookie(t.token, t.expires_at, CookieDomain) : t \in sw}) :
              resp' = [op |-> "switchTo", group |-> groupID, id |-> id, err |-> sw = {},
                       cookie |-> x]
    /\ UNCHANGED <<users, services, grants, sessions, nextId, now, tasks, health, cb, pending, issued>>

\* Manager.DestroyOne: the delete, then the cookie for the caller
DestroyOneOp ==
    /\ resp = NoResp
    /\ \E groupID \in Groups \cup {NoGroup}, id \in SessionIds, wasActive \in BOOLEAN :
         LET next == DestroyOneNext(groupID, id)
         IN /\ sessions' = DestroyOneRest(groupID, id)
            /\ \E x \in (IF ~wasActive THEN {NoCookie}
                          ELSE IF next = {} THEN {ClearCookie}
                          ELSE {MakeCookie(t.token, t.expires_at, CookieDomain) : t \in next}) :
                 resp' = [op |-> "destroyOne", group |-> groupID, id |-> id,
                          wasActive |-> wasActive, cookie |-> x]
    /\ UNCHANGED <<users, services, grants, nextId, now, tasks, health, cb, pending, issued>>

\* Manager.ListGroup: the sessions returned, in the order returned
ListGroupOp ==
    /\ resp = NoResp
    /\ \E groupID \in Groups \cup {NoGroup} :
         \E q \in ListGroup(groupID) :
            resp' = [op |-> "listGroup", group |-> groupID, list |-> q]
    /\ UNCHANGED <<users, services, grants, sessions, nextId, now, tasks, health, cb, pending, issued>>

\* Browsers of two users logging in with and without a session cookie, the
\* group operations, logout and the clock
GroupLogin ==
    /\ resp = NoResp
    /\ nextId.session <= MaxSessions
    /\ \E did \in {OwnerDID, "did:a"}, cookie \in Cookies :
         handleOAuthCallback(did, "h1", cookie)
    /\ UNCHANGED <<users, services, grants, now, tasks, health, cb>>

NextGroup ==
    \/ GroupLogin
    \/ ConcCreateUser
    \/ SwitchToOp
    \/ DestroyOneOp
    \/ ListGroupOp
    \/ Logout
    \/ LastSeenUpdate
    \/ Tick
    \/ Respond

SpecGroup == Init /\ [][NextGroup]_vars

\* One session's life: created, validated, destroyed by DestroyOne, logout
\* or the cleanup pass, with detached last_seen updates arriving late
NextLife ==
    \/ SessLogin
    \/ ValidateOp
    \/ DestroyOneOp
    \/ Logout
    \/ Cleanup
    \/ LastSeenUpdate
    \/ Tick
    \/ Respond

SpecLife == Init /\ [][NextLife]_vars

\* Requests that run into a uniqueness constraint: the owner creates users
\* and gives usernames to two of them
UniqueUsername(p) ==
    /\ resp = NoResp
    /\ cb[p].pc = "idle"
    /\ \E id \in {1, 2, MaxUserId}, name \in Usernames :
         handleUsernameBegin(p, OwnerCookie, id, name)
    /\ UNCHANGED <<services, grants, sessions, nextId, now, tasks, health, issued>>

NextUnique ==
    \/ AuthLogin
    \/ AuthCreateUser
    \/ UniqueUsername(1)
    \/ UsernamePropagate(1)
    \/ Respond

SpecUnique == Init /\ [][NextUnique]_vars

\* Logins that find their DID in the cookie's group, while the owner adds
\* and removes the second user
GroupSwitchLogin ==
    /\ resp = NoResp
    /\ \E did \in {OwnerDID, "did:a"}, cookie \in Cookies :
         /\ cookie # NoToken
         /\ \E v \in Validate(cookie) : GroupHasDID(v.group_id, did) # {}
         /\ handleOAuthCallback(did, "h1", cookie)
    /\ UNCHANGED <<users, services, grants, now, tasks, health, cb>>

NextSwitch ==
    \/ GroupLogin
    \/ GroupSwitchLogin
    \/ ConcCreateUser
    \/ AuthDeleteUser
    \/ Logout
    \/ Respond

SpecSwitch == Init /\ [][NextSwitch]_vars

\* ------------------------------------------------------------ /auth claims
\* what the answered /auth request carried and met
AuthAnswered == resp.op = "auth"
GateService == {s \in services : s.id = resp.gate}
GateDisabled == \E s \in GateService : ~s.enabled
CookieSession == IF resp.cookie = NoToken THEN {} ELSE Validate(resp.cookie)
DisabledLocation(svc) == PublicURL \o <<"/disabled?service=">> \o QueryEscape(svc.name)
PortalRoot == PublicURL \o <<"/">>

\* C1: a request whose forwarded host resolves to a disabled service is never
\* answered 200, whatever cookie, role or Authorization header it carries: 503
\* without text/html in Accept, else 302 to <public>/disabled?service=<name>.
C1_DisabledNever200 ==
    (AuthAnswered /\ GateDisabled) =>
        /\ resp.status # 200
        /\ ~resp.html => resp.status = 503
        /\ resp.html => /\ resp.status = 302
                        /\ \E s \in GateService : resp.location = DisabledLocation(s)

\* an owner with a live session and an Authorization header is turned away
C1_Witness ==
    /\ AuthAnswered /\ GateDisabled /\ resp.html /\ resp.authz
    /\ \E v \in CookieSession : \E u \in UserByDID(v.did) : u.role = "owner"
    /\ resp.status = 302

NoServiceContains(host) == \A s \in services : ~Contains(s.url, host)
C3_UnknownHostDenied ==
    (AuthAnswered /\ CookieSession # {} /\ NoServiceContains(resp.host)) =>
        (resp.status # 200 /\ resp.role = "")

\* C7 as stated: a valid session whose DID has no users row gets 403 (302 to
\* the portal root for browsers) for every non-empty forwarded host.
Userless == \E v \in CookieSession : UserByDID(v.did) = {}
UserOps == {"createUser", "updateUserRole", "deleteUser"}
Privileged(us) == {u \in us : u.role \in {"admin", "owner"}}
OwnerRowOK == \E u \in users : u.did = OwnerDID /\ u.role = "owner"

\* C6: a completed delete leaves no users row, no grant and no validating
\* session of the deleted user.
C6_DeleteCascades ==
    (resp.op = "deleteUser" /\ resp.status = 204) =>
        /\ UserById(resp.targetId) = {}
        /\ \A g \in grants : g.user_id # resp.targetId
        /\ \A v \in sessions : v.user_id # resp.targetId
        /\ \A v \in sessions : v.did = resp.targetDid => Validate(v.token) = {}

\* a role change or a delete aimed at the seed owner by an owner or admin caller
OwnerAttempt(r) ==
    /\ r.op \in {"updateUserRole", "deleteUser"}
    /\ r.callerRole \in {"owner", "admin"}
    /\ r.targetDid = OwnerDID

\* C9 as stated: the seed owner's row always exists with role owner, and every
\* attempt to change its role or delete it answers 403 and changes no users row.
C9_OwnerAttempt403 ==
    [][/\ OwnerRowOK'
       /\ OwnerAttempt(resp') => (resp'.status = 403 /\ users' = users)]_vars

\* C9 amended: as stated, except that a role change naming no valid role
\* answers 400 (and changes nothing) before the seed owner is looked at.
C9_OwnerProtected ==
    [][/\ OwnerRowOK'
       /\ OwnerAttempt(resp') =>
            /\ users' = users
            /\ resp'.status = IF resp'.op = "updateUserRole" /\ resp'.reqRole \notin Roles
                              THEN 400 ELSE 403]_vars

\* an admin asks to set the seed owner's role to user and is refused
C9_Witness ==
    /\ resp.op = "updateUserRole" /\ resp.targetDid = OwnerDID
    /\ resp.callerRole = "admin" /\ resp.reqRole = "user" /\ resp.status = 403
    /\ OwnerRowOK

\* what C10 forbids an admin caller: creating a privileged user, setting a
\* role other than user, deleting a privileged user
AdminOverreach(r) ==
    /\ r.op \in UserOps
    /\ r.callerRole = "admin"
    /\ \/ r.op = "createUser" /\ r.reqRole # "user"
       \/ r.op = "updateUserRole" /\ r.reqRole # "user"
       \/ r.op = "deleteUser" /\ r.targetRole \in {"admin", "owner"}

\* C10 as stated: each such attempt answers 403 and changes no users row, and
\* no request of an admin caller adds a privileged user.
C10_AdminOverreach403 ==
    [][/\ AdminOverreach(resp') => (resp'.status = 403 /\ users' = users)
       /\ (resp'.op \in UserOps /\ resp'.callerRole = "admin") =>
            Privileged(users') \subseteq Privileged(users)]_vars

\* the requests the handlers reject as malformed before the role rules apply
Malformed(r) ==
    \/ r.op = "createUser" /\ r.targetDid = ""
    \/ r.op = "updateUserRole" /\ r.reqRole \notin Roles

\* C10 amended: as stated, except that a create request without a handle and
\* a role change naming no valid role answer 400 (and change nothing).
C10_AdminLimited ==
    [][/\ AdminOverreach(resp') =>
            /\ users' = users
            /\ resp'.status = IF Malformed(resp') THEN 400 ELSE 403
       /\ (resp'.op \in UserOps /\ resp'.callerRole = "admin") =>
            Privileged(users') \subseteq Privileged(users)]_vars

\* an admin asks to create an admin for a DID not yet a user and is refused
C10_Witness ==
    /\ resp.op = "createUser" /\ resp.callerRole = "admin" /\ resp.reqRole = "admin"
    /\ resp.targetDid \in DIDs /\ UserByDID(resp.targetDid) = {}
    /\ resp.status = 403

\* ------------------------------------------------ session manager claims
\* C5: Validate returns a session iff a row with the token exists and expires
\* after now; a token Create issued validates to the inserted session (same
\* DID, handle, group) while its row is live, and is not-found once
\* expires_at <= now, before and after the cleanup pass removes the row.
C5_ValidateIffLive ==
    resp.op = "validate" =>
        LET rows == {v \in sessions : v.token = resp.token}
            made == {i \in issued : i.token = resp.token}
        IN /\ resp.found <=> \E v \in rows : v.expires_at > now
           /\ \A i \in made :
                /\ i.expires_at <= now => ~resp.found
                /\ (now < i.expires_at /\ \E v \in rows : v.id = i.id) =>
                     /\ resp.found
                     /\ resp.sess = {[token |-> i.token, did |-> i.did, handle |-> i.handle,
                                      group_id |-> i.group_id, expires_at |-> i.expires_at]}

\* an expired session is not-found while its row is still stored
C5_Witness ==
    /\ resp.op = "validate" /\ ~resp.found
    /\ \E v \in sessions : v.token = resp.token /\ v.expires_at <= now

\* C4: within one session group there is at most one live session per DID,
\* after any interleaving of OAuth callbacks and logouts.
C4_OneSessionPerGroupDID ==
    \A a \in sessions, b \in sessions :
        (/\ a.group_id = b.group_id /\ a.did = b.did
         /\ a.expires_at > now /\ b.expires_at > now) => a.id = b.id

\* a Location a browser resolves against the requesting host: a path whose
\* second character does not start an authority
IsSlash(c) == c \in {"/", "\\"}
SameHostPath(loc) ==
    /\ HasPrefix(loc, <<"/">>)
    /\ ~(Len(loc) >= 2 /\ IsSlash(loc[2]))

\* C8: for a valid token the relay's Location is r iff r begins with "/",
\* else "/", and it is always a path on the requesting host.
C8_RelayStaysOnHost ==
    (resp.op = "relay" /\ resp.valid) =>
        /\ resp.status = 302
        /\ resp.location = IF HasPrefix(resp.r, <<"/">>) THEN resp.r ELSE <<"/">>
        /\ SameHostPath(resp.location)

\* ------------------------------------------------------ middleware claim
AdminOps == UserOps \cup {"toggleEnabled", "createGrant", "deleteGrant"}
\* the live sessions a cookie names, read from the table
LiveSessions(cookie) ==
    {v \in sessions : cookie # NoToken /\ v.token = cookie /\ v.expires_at > now}
\* roles of the users rows behind those sessions
CookieRoles(cookie) ==
    {u.role : u \in {x \in users : \E v \in LiveSessions(cookie) : v.did = x.did}}

\* C11: an admin API request mutates users, services or grants, or gets past
\* the middleware at all, only with a cookie whose session is live and whose
\* user is owner or admin now; no live session answers 401, a live session of
\* a role-user answers 403.
C11_AdminOnly ==
    [][resp'.op \in AdminOps =>
         /\ LiveSessions(resp'.cookie) = {} => resp'.status = 401
         /\ CookieRoles(resp'.cookie) = {"user"} => resp'.status = 403
         /\ CookieRoles(resp'.cookie) \cap {"owner", "admin"} = {} =>
              /\ resp'.status \in {401, 403}
              /\ users' = users /\ services' = services /\ grants' = grants]_vars

\* a role-user with a live session asks for a grant and is refused
C11_Witness ==
    /\ resp.op = "createGrant" /\ resp.status = 403
    /\ CookieRoles(resp.cookie) = {"user"}
    /\ grants = {}

\* ------------------------------------------------- policy engine claims
\* the services whose URL contains the host as a substring
Matched(host) == {s \in services : Contains(s.url, host)}
RoleOfDID(did) == {u.role : u \in UserByDID(did)}

\* C12: for a user whose role is owner or admin and a host matching a
\* service, GetUserServiceRole returns the admin_role of the matched service
\* it scanned ("admin" is the column's value when unset), whatever grants the
\* user holds or lacks.
C12_AdminGetsAdminRole ==
    (/\ resp.op = "policy"
     /\ RoleOfDID(resp.did) \cap {"owner", "admin"} # {}
     /\ Matched(resp.host) # {}) =>
        /\ ~resp.err
        /\ \E s \in Matched(resp.host) : s.id = resp.sid /\ resp.role = s.admin_role

\* an admin holding the grant editor on the service gets its admin_role
C12_Witness ==
    /\ resp.op = "policy" /\ resp.host = <<"c">> /\ resp.role = "root"
    /\ \E u \in UserByDID(resp.did) : u.role = "admin" /\ GrantRole(u.id, 2) = "editor"

\* the role-user behind the cookie's live session, and that user's grant
\* roles on the services the host matches ("" where there is no grant)
SessionUsers == {u \in users : \E v \in CookieSession : v.did = u.did /\ u.role = "user"}
GrantOn(u, s) ==
    IF \E g \in grants : g.user_id = u.id /\ g.service_id = s.id
    THEN {g.role : g \in {x \in grants : x.user_id = u.id /\ x.service_id = s.id}}
    ELSE {""}
MatchedGrants(u) == UNION {GrantOn(u, s) : s \in Matched(resp.host)}
Denied ==
    /\ resp.role = "" /\ resp.hdrDid = ""
    /\ ~resp.html => resp.status = 403
    /\ resp.html => (resp.status = 302 /\ resp.location = PortalRoot)
GrantDecides ==
    \A u \in SessionUsers :
        /\ "" \notin MatchedGrants(u) =>
             /\ resp.status = 200 /\ resp.hdrDid = u.did
             /\ resp.role \in MatchedGrants(u)
        /\ MatchedGrants(u) = {""} => Denied
        /\ resp.status = 200 => (resp.hdrDid = u.did /\ resp.role \in MatchedGrants(u) \ {""})
        /\ resp.status # 200 => Denied

\* C13 as stated: for a role-user session and a host matching a service, a
\* grant on the matched service answers 200 with X-User-DID the session's DID
\* and X-User-Role the grant's role; no grant answers 403, or 302 to the
\* portal root for browsers.
C13_GrantDecides200 ==
    (AuthAnswered /\ resp.host # <<>> /\ Matched(resp.host) # {}) => GrantDecides

\* C13 amended: as stated, for a host whose service is not disabled (a
\* disabled service answers 503 or the disabled page before the session is
\* looked at).
C13_GrantDecides ==
    (AuthAnswered /\ resp.host # <<>> /\ Matched(resp.host) # {} /\ ~GateDisabled) =>
        GrantDecides

\* a role-user is admitted to the service granted and to no other
C13_Witness ==
    /\ AuthAnswered /\ resp.host = <<"a", "b">> /\ resp.status = 200
    /\ \E u \in SessionUsers :
         /\ resp.hdrDid = u.did /\ resp.role = "editor"
         /\ \A g \in grants : g.user_id = u.id => (g.service_id = 1 /\ g.role = "editor")

\* the forwarded host without its port component
HostOnly(host) ==
    LET hits == {i \in 1..Len(host) : host[i] = ":"}
    IN IF hits = {} THEN host
       ELSE SubSeq(host, 1, (CHOOSE i \in hits : \A j \in hits : j <= i) - 1)
\* what the two queries can answer for a host in the current store
GateOutcomes(host) ==
    IF \E s \in services : UrlLikeHost(s.url, host)
    THEN {[err |-> FALSE, sid |-> s.id] : s \in {x \in services : UrlLikeHost(x.url, host)}}
    ELSE {[err |-> TRUE, sid |-> 0]}
PolicyOutcomes(did, host) ==
    {[err |-> FALSE, role |-> RoleOfRow(row)] : row \in PolicyRows(did, host)}
      \cup (IF PolicyRows(did, host) = {} THEN {[err |-> TRUE, role |-> ""]} ELSE {})

\* C14: a forwarded host "host:port" gets a service-gate result and a policy
\* verdict that "host" alone can get, for every DID, host and port.
C14_PortIgnored ==
    /\ (resp.op = "gate" /\ HostOnly(resp.host) # resp.host) =>
         [err |-> resp.err, sid |-> resp.sid] \in GateOutcomes(HostOnly(resp.host))
    /\ (resp.op = "policy" /\ HostOnly(resp.host) # resp.host) =>
         [err |-> resp.err, role |-> resp.role] \in PolicyOutcomes(resp.did, HostOnly(resp.host))

\* ---------------------------------------------------- username claim
\* C15: once a username update has returned, every live session of the
\* user's DID carries the users row's username, sessions inserted by a
\* concurrent Create included.
C15_UsernamePropagated ==
    (\A p \in Procs : cb[p].pc # "propagate") =>
        \A v \in sessions : \A u \in UserByDID(v.did) :
            v.expires_at > now => v.username = u.username

\* ------------------------------------------------- session group claims
\* live sessions of the DID in the group of the cookie's live session
GroupMates(cookie, did) ==
    {x \in sessions : /\ x.did = did /\ x.expires_at > now
                      /\ \E v \in LiveSessions(cookie) : x.group_id = v.group_id}

C17_LogoutDestroysGroup ==
    [][/\ resp'.op = "logout" =>
            /\ resp'.setCookie = ClearCookie
            /\ \A v \in LiveSessions(resp'.cookie) :
                 /\ \A x \in sessions' : x.group_id # v.group_id
                 /\ \A x \in sessions : x.group_id = v.group_id =>
                      \A y \in sessions' : ~(y.token = x.token /\ y.expires_at > now')
       /\ \A i \in issued : (\A x \in sessions : x.token # i.token) =>
                               (\A y \in sessions' : y.token # i.token)]_vars

\* a logout with one identity's cookie has removed the other identity's
\* session of the same group too
C17_Witness ==
    /\ resp.op = "logout" /\ now = 0
    /\ \E i \in issued, j \in issued :
         /\ i.token = resp.cookie /\ j.group_id = i.group_id /\ j.did # i.did
         /\ \A x \in sessions : x.group_id # i.group_id

\* C18: DestroyOne(G, id, wasActive) deletes session id, and only it, only if
\* it belongs to G; sessions of other groups are never touched; wasActive =
\* false returns no cookie; wasActive = true returns a cookie for the
\* remaining live session of G with the earliest created_at, or the
\* clear-cookie when none remains.
C18_DestroyOne ==
    [][resp'.op = "destroyOne" =>
         LET left == {x \in sessions' : x.group_id = resp'.group /\ x.expires_at > now'}
         IN /\ sessions' \subseteq sessions
            /\ \A x \in sessions \ sessions' : x.id = resp'.id /\ x.group_id = resp'.group
            /\ \A x \in sessions' : ~(x.id = resp'.id /\ x.group_id = resp'.group)
            /\ ~resp'.wasActive => resp'.cookie = NoCookie
            /\ (resp'.wasActive /\ left = {}) => resp'.cookie = ClearCookie
            /\ (resp'.wasActive /\ left # {}) =>
                 \E x \in left :
                    /\ \A y \in left : x.created_at <= y.created_at
                    /\ resp'.cookie = MakeCookie(x.token, x.expires_at, CookieDomain)]_vars

\* a call naming no session of the group deletes nothing and returns the
\* cookie of the older of the group's two live sessions
C18_Witness ==
    /\ resp.op = "destroyOne" /\ resp.wasActive
    /\ \E x \in sessions, y \in sessions :
         /\ x.group_id = resp.group /\ y.group_id = resp.group
         /\ x.created_at < y.created_at /\ y.expires_at > now /\ x.expires_at > now
         /\ resp.id \notin {x.id, y.id}
         /\ resp.cookie.value = x.token

\* C19: SwitchTo(G, id) returns a cookie, with the target's own token and
\* expiry, only when session id exists, is in group G and is not expired;
\* otherwise it fails with no cookie; it changes no stored state, and never
\* returns the token of a session outside G.
C19_SwitchTo ==
    [][resp'.op = "switchTo" =>
         LET target == {x \in sessions : /\ x.id = resp'.id /\ x.group_id = resp'.group
                                         /\ x.expires_at > now}
         IN /\ sessions' = sessions /\ users' = users /\ grants' = grants
            /\ target = {} => (resp'.err /\ resp'.cookie = NoCookie)
            /\ target # {} =>
                 /\ ~resp'.err
                 /\ \E x \in target :
                      resp'.cookie = MakeCookie(x.token, x.expires_at, CookieDomain)
            /\ \A x \in sessions : x.group_id # resp'.group => resp'.cookie.value # x.token]_vars

\* a caller in one group names a live session of another group and fails
C19_Witness ==
    /\ resp.op = "switchTo" /\ resp.err /\ resp.cookie = NoCookie
    /\ \E x \in sessions, y \in sessions :
         /\ x.id = resp.id /\ x.expires_at > now /\ x.group_id # resp.group
         /\ y.group_id = resp.group /\ y.expires_at > now

\* C20: ListGroup(G) returns exactly the sessions with group_id = G and
\* expires_at > now, each once, in non-decreasing created_at order; the empty
\* group id yields the empty result.
C20_ListGroup ==
    resp.op = "listGroup" =>
        LET live == {x \in sessions : x.group_id = resp.group /\ x.expires_at > now}
            n == Len(resp.list)
        IN /\ {resp.list[i] : i \in 1..n} = live
           /\ n = Cardinality(live)
           /\ \A i, j \in 1..n : i < j => resp.list[i].created_at <= resp.list[j].created_at
           /\ resp.group = NoGroup => resp.list = <<>>

\* the newer identity of a group is listed alone once the older one expired
C20_Witness ==
    /\ resp.op = "listGroup" /\ Len(resp.list) = 1
    /\ \E x \in sessions :
         /\ x.group_id = resp.group /\ x.expires_at <= now
         /\ x.created_at < resp.list[1].created_at

\* ------------------------------------------------ session lifetime claims
\* tokens Create issued whose row is gone
Destroyed == {i.token : i \in {x \in issued : \A v \in sessions : v.token # x.token}}

\* C21: once a session row is deleted, by Destroy, DestroyOne, DestroyGroup or
\* the cleanup pass, no step gives its token a row again, the detached
\* last_seen update included, and Validate on the token answers not-found.
C21_DestroyedIsTerminal ==
    [][/\ \A t \in Destroyed : \A v \in sessions' : v.token # t
       /\ (resp'.op = "validate" /\ resp'.token \in Destroyed) => ~resp'.found]_vars

\* a token validated and then logged out, its last_seen update still
\* pending, is not-found before it would have expired
C21_Witness ==
    /\ resp.op = "validate" /\ ~resp.found /\ resp.token \in Destroyed
    /\ resp.token \in pending
    /\ \E i \in issued : i.token = resp.token /\ i.expires_at > now

\* a session row without its last_seen
Stored(v) == [v EXCEPT !.last_seen = 0]

\* C22: a Validate call changes no stored state; the only later effect is the
\* detached update of last_seen of the validated session, which never
\* decreases it; a found Validate returns the session as Create inserted it,
\* whatever became of earlier last_seen updates.
C22_ValidateFrame ==
    [][/\ resp'.op = "validate" =>
            /\ sessions' = sessions /\ users' = users /\ grants' = grants
            /\ services' = services
            /\ resp'.found =>
                 \E i \in issued :
                    /\ i.token = resp'.token
                    /\ resp'.sess = {[token |-> i.token, did |-> i.did, handle |-> i.handle,
                                      group_id |-> i.group_id, expires_at |-> i.expires_at]}
       /\ \A v \in sessions, w \in sessions' :
            v.id = w.id =>
               /\ Stored(v) = Stored(w)
               /\ w.last_seen >= v.last_seen
               /\ w.last_seen # v.last_seen => v.token \in pending]_vars

\* a session validated again after an earlier last_seen update went through
C22_Witness ==
    /\ resp.op = "validate" /\ resp.found
    /\ \E v \in sessions : v.token = resp.token /\ v.last_seen > v.created_at
    /\ \E w \in sessions : w.token # resp.token /\ w.last_seen = w.created_at

\* ---------------------------------------------- /auth header claims
\* what the proxy acts on: status, Location and the identity headers
Verdict(r) == [status |-> r.status, location |-> r.location, role |-> r.role,
               hdrDid |-> r.hdrDid, hdrUser |-> r.hdrUser]
VerdictsWith(host, cookie, html, authz) ==
    {Verdict(r) : r \in AuthVerdicts(host, cookie, html, authz, <<>>, <<"/", "d">>)}

\* C23: with a valid session in the cookie, the verdict /auth gave is one it
\* can give to the same request with the Authorization header added or
\* removed, and the verdicts it can give are the same either way; a 200 given to such a
\* request carries the session's identity headers, and a session the policy
\* denied gets 403, or 302 to the portal root, never the passthrough 200.
C23_HeadersNoInfluence ==
    /\ (AuthAnswered /\ CookieSession # {}) =>
         /\ Verdict(resp) \in VerdictsWith(resp.host, resp.cookie, resp.html, ~resp.authz)
         /\ VerdictsWith(resp.host, resp.cookie, resp.html, TRUE)
              = VerdictsWith(resp.host, resp.cookie, resp.html, FALSE)
    /\ (AuthAnswered /\ resp.authz /\ CookieSession # {}) =>
         /\ resp.status = 200 => \E v \in CookieSession : resp.hdrDid = v.did
         /\ (resp.did # "" /\ resp.status # 200) =>
              /\ resp.role = "" /\ resp.hdrDid = ""
              /\ ~resp.html => resp.status = 403
              /\ resp.html => (resp.status = 302 /\ resp.location = PortalRoot)

\* a role-user without a grant sends an Authorization header along with its
\* valid cookie and is refused
C23_Witness ==
    /\ AuthAnswered /\ resp.authz /\ ~resp.html /\ resp.status = 403
    /\ resp.host = <<"a", "b">>
    /\ \E v \in CookieSession : \E u \in UserByDID(v.did) : u.role = "user"

\* the login URL for a target built from the forwarded scheme (https when
\* the header is empty), host and uri
LoginRedirects(host) ==
    {PublicURL \o <<"/login", "?redirect=">>
        \o QueryEscape(sch \o <<":", "/", "/">> \o host \o uri) :
        sch \in {<<"https">>, <<"http">>}, uri \in Uris}

\* C24: with no valid session and no Authorization header, /auth for a host
\* that is unknown or whose service is enabled answers 401 iff the Accept in
\* force (X-Forwarded-Accept, else Accept) lacks text/html, and otherwise 302
\* to <public-url>/login?redirect=<url-encoded scheme://host+uri>.
C24_NoSessionChallenge ==
    (AuthAnswered /\ CookieSession = {} /\ ~resp.authz /\ ~GateDisabled /\ resp.host # <<>>) =>
        /\ resp.status = 401 <=> ~resp.html
        /\ resp.status = 302 <=> resp.html
        /\ resp.html => resp.location \in LoginRedirects(resp.host)
        /\ resp.hdrDid = "" /\ resp.role = ""

\* a browser holding a cookie that names no session is sent to the login page with the
\* encoded address of the page it asked for
C24_Witness ==
    /\ AuthAnswered /\ resp.html /\ ~resp.authz /\ resp.status = 302
    /\ resp.host = <<"a", "b">>
    /\ resp.cookie # NoToken /\ sessions # {}
    /\ resp.location = PublicURL \o <<"/login", "?redirect=", "https", "%3A", "%2F", "%2F",
                                      "a", "b", "%2F", "d">>

\* ------------------------------------------------ uniqueness claims
\* the request got past the middleware and the handler's validation
Admitted(r) == r.status \notin {400, 401, 403}

\* C25: an admin request that would break a uniqueness constraint (a user
\* whose DID exists, a username another user holds) answers 409, never 500,
\* and leaves the users table unchanged.
C25_Conflict409 ==
    [][/\ (/\ resp'.op = "createUser" /\ Admitted(resp')
           /\ UserByDID(resp'.targetDid) # {}) =>
              (resp'.status = 409 /\ users' = users)
       /\ (/\ resp'.op = "updateUsername" /\ Admitted(resp')
           /\ resp'.reqRole # "" /\ resp'.targetId # 0
           /\ \E u \in users : u.id # resp'.targetId /\ u.username = resp'.reqRole) =>
              (resp'.status = 409 /\ users' = users)]_vars


\* ------------------------------------------------------------ grant rows
\* The grants table under the admin API: two callers (the owner and an admin
\* they created) upsert and delete grants, delete users and delete services.
GrantCallers == {Tok(1), Tok(2)}
GrantUserIds == 0..MaxUserId
GrantServiceIds == ServiceIds \cup {0, 3}

GrantUpsert ==
    /\ resp = NoResp
    /\ \E cookie \in GrantCallers, uid \in GrantUserIds, sid \in GrantServiceIds, r \in GrantRoles :
         handleCreateGrantUpTo(MaxGrantRows, cookie, uid, sid, r)
GrantDelete ==
    /\ resp = NoResp
    /\ \E cookie \in GrantCallers, id \in 1..MaxGrantRows : handleDeleteGrant(cookie, id)
GrantDeleteUser ==
    /\ resp = NoResp
    /\ \E cookie \in GrantCallers, id \in UserIds : handleDeleteUser(cookie, id)
GrantDeleteService ==
    /\ resp = NoResp
    /\ \E cookie \in GrantCallers, id \in GrantServiceIds \ {0} : handleDeleteService(cookie, id)

NextGrant ==
    \/ AuthLogin
    \/ AuthCreateUser
    \/ GrantUpsert
    \/ GrantDelete
    \/ GrantDeleteUser
    \/ GrantDeleteService
    \/ Respond

SpecGrant == Init /\ [][NextGrant]_vars

SamePair(g, uid, sid) == g.user_id = uid /\ g.service_id = sid

\* C26: no two grant rows ever share a (user, service) pair, and a
\* successful upsert of a pair that already has a row adds no row and leaves
\* that row holding the requested role
C26_OneGrantPerPair ==
    [][/\ \A g1 \in grants', g2 \in grants' :
            SamePair(g1, g2.user_id, g2.service_id) => g1 = g2
       /\ (/\ resp'.op = "createGrant" /\ resp'.status = 201
           /\ \E g \in grants : SamePair(g, resp'.userId, resp'.serviceId))
          => /\ Cardinality(grants') = Cardinality(grants)
             /\ \A g \in grants' : SamePair(g, resp'.userId, resp'.serviceId)
                                      => g.role = resp'.role]_vars

\* A second caller's upsert has replaced the role of a row the first caller
\* inserted, beside a row for another pair
C26_Witness ==
    /\ resp.op = "createGrant" /\ resp.status = 201
    /\ Cardinality(grants) = 2
    /\ \E g \in grants : /\ SamePair(g, resp.userId, resp.serviceId)
                         /\ g.granted_by # resp.callerId
                         /\ g.role = resp.role /\ g.role = "editor"

\* C27: every grant row names an existing user and an existing service; a
\* completed service or user delete leaves no grant naming the deleted row,
\* and an upsert naming a missing user or service changes no row
C27_GrantsReferenceRows ==
    [][/\ \A g \in grants' : /\ \E u \in users' : u.id = g.user_id
                              /\ \E s \in services' : s.id = g.service_id
       /\ (resp'.op = "deleteService" /\ resp'.status = 204)
          => \A g \in grants' : g.service_id # resp'.targetId
       /\ (resp'.op = "deleteUser" /\ resp'.status = 204)
          => \A g \in grants' : g.user_id # resp'.targetId /\ g.granted_by # resp'.targetId
       /\ (/\ resp'.op = "createGrant"
           /\ \/ \A u \in users : u.id # resp'.userId
              \/ \A s \in services : s.id # resp'.serviceId)
          => grants' = grants]_vars

\* One of two grants is gone after the delete of the service it named, with
\* both users still stored
C27_Witness ==
    /\ resp.op = "deleteService" /\ resp.status = 204
    /\ nextId.grant = 3 /\ Cardinality(grants) = 1
    /\ nextId.user = 3 /\ Cardinality(users) = 2
    /\ Cardinality(services) = 1
    /\ \A s \in services : s.id # resp.targetId


\* the request host without its port
HostName(host) ==
    LET colons == {i \in 1..Len(host) : host[i] = ":"}
    IN IF colons = {} THEN host
       ELSE SubSeq(host, 1, (CHOOSE i \in colons : \A j \in colons : j <= i) - 1)

\* the configured cookie domains a host belongs to: the domain without its
\* leading dot, or any name under it
DomainsOf(host) ==
    {CookieDomains[i] : i \in {j \in 1..Len(CookieDomains) :
        LET d == CookieDomains[j]
            h == HostName(host)
        IN \/ h = SubSeq(d, 2, Len(d))
           \/ Len(h) > Len(d) /\ SubSeq(h, Len(h) - Len(d) + 1, Len(h)) = d}}

\* C28: a relay answer carries a session cookie only for a token naming a
\* stored, unexpired session, and then with that token, that session's expiry
\* and the cookie domain of the request host (the primary domain when the host
\* is under no configured domain); an empty token is answered 400 and a token
\* naming no live session is redirected to the login page, both without a
\* session cookie
C28_RelayCookie ==
    resp.op = "relay" =>
        /\ resp.token = NoToken => resp.status = 400 /\ resp.setCookie = NoCookie
        /\ (resp.token # NoToken /\ LiveSessions(resp.token) = {})
              => /\ resp.status = 302
                 /\ resp.location = PublicURL \o <<"/login">>
                 /\ resp.setCookie = NoCookie
        /\ resp.setCookie # NoCookie
              => /\ ~resp.setCookie.clear
                 /\ resp.setCookie.value = resp.token
                 /\ \E v \in LiveSessions(resp.token) : resp.setCookie.expires = v.expires_at
                 /\ IF DomainsOf(resp.host) = {} THEN resp.setCookie.domain = CookieDomain
                    ELSE resp.setCookie.domain \in DomainsOf(resp.host)

\* A live token relayed on a host with a port under the second cookie domain,
\* after the clock has moved past the session's creation
C28_Witness ==
    /\ resp.op = "relay" /\ resp.setCookie # NoCookie
    /\ resp.host = <<"k", ":", "8">>
    /\ resp.setCookie.domain = CookieDomains[2]
    /\ now > 0
    /\ \E v \in sessions : v.token # resp.token /\ v.expires_at <= now


\* ----------------------------------------------------------- revocation
\* An /auth request in flight while the owner grants and revokes: the request
\* validates, reads the policy and answers in separate steps.
RevokeGrant ==
    /\ resp = NoResp
    /\ \E uid \in UserIds \ {1}, sid \in ServiceIds, r \in GrantRoles :
         handleCreateGrantUpTo(MaxGrantRows, OwnerCookie, uid, sid, r)
RevokeDelete ==
    /\ resp = NoResp
    /\ \E id \in 1..MaxGrantRows : handleDeleteGrant(OwnerCookie, id)

NextRevoke ==
    \/ AuthLogin
    \/ AuthCreateUser
    \/ RevokeGrant
    \/ RevokeDelete
    \/ AuthBegin(1)
    \/ AuthPolicy(1)
    \/ AuthAnswer(1)
    \/ Respond

SpecRevoke == Init /\ [][NextRevoke]_vars

\* the answer refuses: 403, or the portal root for a browser, with no identity
Refused(r) ==
    /\ r.role = "" /\ r.hdrDid = ""
    /\ IF r.html THEN r.status = 302 /\ r.location = PortalRoot ELSE r.status = 403

\* role-user rows of the DID holding no grant on any service the host matches
Ungranted(did, host) ==
    {u \in users : /\ u.did = did /\ u.role = "user"
                   /\ \A sv \in Matched(host), g \in grants :
                         ~(g.user_id = u.id /\ g.service_id = sv.id)}

\* C29: a policy read that finds the grant of a role-user on the host's
\* service deleted decides a refusal, whenever the deletion happened; the
\* answer written is the one the policy read decided, so a request admitted
\* after the revocation read the policy before it
C29_RevocationMonotone ==
    [][\A p \in Procs :
         /\ (cb[p].pc = "policy" /\ cb'[p].pc = "answer"
               /\ cb[p].req.host # <<>> /\ Ungranted(cb[p].did, cb[p].req.host) # {})
              => Refused(cb'[p].out)
         /\ (cb[p].pc = "answer" /\ cb'[p].pc = "idle") => resp' = cb[p].out]_vars

\* A role-user is admitted by an answer written after the grant that the
\* policy read found was deleted
C29_Witness ==
    /\ resp.op = "auth" /\ resp.status = 200 /\ resp.host = <<"a", "b">>
    /\ resp.role = "editor"
    /\ Ungranted(resp.hdrDid, resp.host) # {}
    /\ grants = {}


\* ------------------------------------------------------------ seed load
\* entries of a services.json: two for a slug the table starts with, two for
\* a new one; an empty admin_role is one the file leaves out
SeedEntries ==
    { [slug |-> "s1", name |-> <<"N">>, description |-> "d", url |-> <<"/", "z">>,
       icon_url |-> "i", admin_role |-> ""],
      [slug |-> "s1", name |-> <<"G">>, description |-> "", url |-> <<"/", "a", "b">>,
       icon_url |-> "", admin_role |-> "root"],
      [slug |-> "s3", name |-> <<"N">>, description |-> "d", url |-> <<"/", "z">>,
       icon_url |-> "", admin_role |-> ""],
      [slug |-> "s3", name |-> <<"T">>, description |-> "", url |-> <<"/", "t">>,
       icon_url |-> "i", admin_role |-> "root"] }
Catalogs == UNION {[1..n -> SeedEntries] : n \in 0..MaxCatalog}

\* the upsert as a plain INSERT with no conflict target
SeedOne_plainInsert(st, e) ==
    LET role == IF e.admin_role = "" THEN "admin" ELSE e.admin_role
    IN [rows |-> st.rows \cup {[id |-> st.next, slug |-> e.slug, name |-> e.name,
                                 description |-> e.description, url |-> e.url,
                                 icon_url |-> e.icon_url, admin_role |-> role,
                                 enabled |-> TRUE, public |-> FALSE]},
        next |-> st.next + 1]

\* the upsert also writing the flags' defaults over the row it updates
SeedOne_resetFlags(st, e) ==
    LET role == IF e.admin_role = "" THEN "admin" ELSE e.admin_role
        old == {s \in st.rows : s.slug = e.slug}
    IN IF old = {}
       THEN [rows |-> st.rows \cup {[id |-> st.next, slug |-> e.slug, name |-> e.name,
                                      description |-> e.description, url |-> e.url,
                                      icon_url |-> e.icon_url, admin_role |-> role,
                                      enabled |-> TRUE, public |-> FALSE]},
             next |-> st.next + 1]
       ELSE [rows |-> {IF s \in old
                       THEN [s EXCEPT !.name = e.name, !.description = e.description,
                                      !.url = e.url, !.icon_url = e.icon_url,
                                      !.admin_role = role, !.enabled = TRUE, !.public = FALSE]
                       ELSE s : s \in st.rows},
             next |-> st.next]

\* one pass of the loop: INSERT ... ON CONFLICT (slug) DO UPDATE SET name,
\* description, url, icon_url, admin_role; st is the table and the identity
\* sequence
SeedOne(st, e) ==
    LET role == IF e.admin_role = "" THEN "admin" ELSE e.admin_role
        old == {s \in st.rows : s.slug = e.slug}
    IN IF old = {}
       THEN [rows |-> st.rows \cup {[id |-> st.next, slug |-> e.slug, name |-> e.name,
                                      description |-> e.description, url |-> e.url,
                                      icon_url |-> e.icon_url, admin_role |-> role,
                                      enabled |-> TRUE, public |-> FALSE]},
             next |-> st.next + 1]
       ELSE [rows |-> {IF s \in old
                       THEN [s EXCEPT !.name = e.name, !.description = e.description,
                                      !.url = e.url, !.icon_url = e.icon_url,
                                      !.admin_role = role]
                       ELSE s : s \in st.rows},
             next |-> st.next]

RECURSIVE SeedFrom(_, _, _)
SeedFrom(st, catalog, i) ==
    IF i > Len(catalog) THEN st ELSE SeedFrom(SeedOne(st, catalog[i]), catalog, i + 1)

\* SeedServices: the entries upserted in file order
SeedServices(rows, next, catalog) == SeedFrom([rows |-> rows, next |-> next], catalog, 1)

SeedLoad ==
    /\ resp = NoResp
    /\ \E catalog \in Catalogs :
         LET st == SeedServices(services, nextId.service, catalog)
         IN /\ st.next <= MaxServiceId + 1
            /\ services' = st.rows
            /\ nextId' = [nextId EXCEPT !.service = st.next]
            /\ resp' = [op |-> "seed", catalog |-> catalog]
    /\ UNCHANGED <<users, grants, sessions, now, tasks, health, cb, pending, issued>>
SeedDeleteService ==
    /\ resp = NoResp
    /\ \E id \in 1..MaxServiceId : handleDeleteService(OwnerCookie, id)

NextSeed ==
    \/ AuthLogin
    \/ AuthToggle
    \/ SeedDeleteService
    \/ SeedLoad
    \/ Respond

SpecSeed == Init /\ [][NextSeed]_vars

\* the last entry of a catalog for a slug
LastEntry(catalog, slug) ==
    catalog[CHOOSE i \in 1..Len(catalog) :
               /\ catalog[i].slug = slug
               /\ \A j \in (i + 1)..Len(catalog) : catalog[j].slug # slug]
SlugsOf(catalog) == {catalog[i].slug : i \in 1..Len(catalog)}
RoleIn(e) == IF e.admin_role = "" THEN "admin" ELSE e.admin_role

\* C30: after a seed load, loading the same catalog again changes no row; a
\* slug the table held keeps its one row (same id, enabled and public) with
\* name, url, description and admin_role those of the catalog; a slug the
\* catalog does not name keeps its row as it was; no slug has two rows
C30_SeedIdempotent ==
    [][resp'.op = "seed" =>
        /\ SeedServices(services', nextId'.service, resp'.catalog).rows = services'
        /\ \A s \in services' : \A t \in services' : s.slug = t.slug => s = t
        /\ \A s \in services :
             IF s.slug \in SlugsOf(resp'.catalog)
             THEN \E t \in services' :
                    LET e == LastEntry(resp'.catalog, s.slug)
                    IN /\ t.id = s.id /\ t.slug = s.slug
                       /\ t.enabled = s.enabled /\ t.public = s.public
                       /\ t.name = e.name /\ t.url = e.url
                       /\ t.description = e.description /\ t.admin_role = RoleIn(e)
             ELSE s \in services'
        /\ \A t \in services' :
             (\E s \in services : s.slug = t.slug) \/ t.slug \in SlugsOf(resp'.catalog)]_vars

\* A load has rewritten the disabled row of a seeded slug in place and
\* inserted a new slug beside it
C30_Witness ==
    /\ resp.op = "seed" /\ Len(resp.catalog) = 2
    /\ \E s \in services : /\ s.slug = "s1" /\ s.id = 1 /\ ~s.enabled
                           /\ s.name = <<"N">> /\ s.description = "d"
                           /\ s.url = <<"/", "z">> /\ s.admin_role = "admin"
    /\ \E s \in services : s.slug = "s3" /\ s.id = 3


\* -------------------------------------------------------- flag toggles
\* Toggle requests in flight: the admin middleware, the UPDATE ... RETURNING
\* statement and the written answer are separate steps of each request.
ToggleFlags == {"enabled", "public"}
FlagOf(s, flag) == IF flag = "enabled" THEN s.enabled ELSE s.public
ToggleOp(flag) == IF flag = "enabled" THEN "toggleEnabled" ELSE "togglePublic"

ToggleBegin(p) ==
    /\ resp = NoResp
    /\ cb[p].pc = "idle"
    /\ \E cookie \in {Tok(1), Tok(2)}, id \in ServiceIds, flag \in ToggleFlags :
         LET ra == requireAdmin(cookie)
         IN /\ Detach(cookie, ra.validated)
            /\ IF ra.status # 0
               THEN /\ resp' = SvcResp(ToggleOp(flag), cookie, ra.status, ra.user, id, FALSE)
                    /\ UNCHANGED cb
               ELSE /\ cb' = [cb EXCEPT ![p] = [IdleCb EXCEPT !.pc = "toggle", !.cookie = cookie,
                                                   !.did = ra.user.did,
                                                   !.req = [flag |-> flag, id |-> id]]]
                    /\ UNCHANGED resp
    /\ UNCHANGED <<users, services, grants, sessions, nextId, now, tasks, health, issued>>

\* the statement returning the flag as it was before the update
ToggleExec_returnsOld(p) ==
    /\ resp = NoResp
    /\ cb[p].pc = "toggle"
    /\ LET r == cb[p].req
           hit == {s \in services : s.id = r.id}
           caller == RowOf(UserByDID(cb[p].did))
       IN /\ services' = {IF s \in hit
                          THEN IF r.flag = "enabled" THEN [s EXCEPT !.enabled = ~@]
                               ELSE [s EXCEPT !.public = ~@]
                          ELSE s : s \in services}
          /\ cb' = [cb EXCEPT ![p].pc = "answer",
                              ![p].out = IF hit = {}
                                         THEN SvcResp(ToggleOp(r.flag), cb[p].cookie, 500,
                                                      caller, r.id, FALSE)
                                         ELSE SvcResp(ToggleOp(r.flag), cb[p].cookie, 200,
                                                      caller, r.id,
                                                      FlagOf(CHOOSE s \in hit : TRUE, r.flag))]
    /\ UNCHANGED <<users, grants, sessions, nextId, now, tasks, health, pending, issued, resp>>

\* UPDATE services SET flag = NOT flag WHERE id = $1 RETURNING flag: one
\* statement; no row is an error, answered 500
ToggleExec(p) ==
    /\ resp = NoResp
    /\ cb[p].pc = "toggle"
    /\ LET r == cb[p].req
           hit == {s \in services : s.id = r.id}
           caller == RowOf(UserByDID(cb[p].did))
       IN /\ services' = {IF s \in hit
                          THEN IF r.flag = "enabled" THEN [s EXCEPT !.enabled = ~@]
                               ELSE [s EXCEPT !.public = ~@]
                          ELSE s : s \in services}
          /\ cb' = [cb EXCEPT ![p].pc = "answer",
                              ![p].out = IF hit = {}
                                         THEN SvcResp(ToggleOp(r.flag), cb[p].cookie, 500,
                                                      caller, r.id, FALSE)
                                         ELSE SvcResp(ToggleOp(r.flag), cb[p].cookie, 200,
                                                      caller, r.id,
                                                      ~FlagOf(CHOOSE s \in hit : TRUE, r.flag))]
    /\ UNCHANGED <<users, grants, sessions, nextId, now, tasks, health, pending, issued, resp>>

ToggleStart == \E p \in Procs : ToggleBegin(p)
ToggleRun == \E p \in Procs : ToggleExec(p)
ToggleAnswer == \E p \in Procs : AuthAnswer(p)
ToggleDeleteService ==
    /\ resp = NoResp
    /\ \E id \in ServiceIds : handleDeleteService(OwnerCookie, id)

NextToggle ==
    \/ AuthLogin
    \/ AuthCreateUser
    \/ ToggleStart
    \/ ToggleRun
    \/ ToggleAnswer
    \/ ToggleDeleteService
    \/ Respond

SpecToggle == Init /\ [][NextToggle]_vars

\* C31: a toggle statement that finds its row inverts the stored flag and
\* returns the value stored right after, changing nothing else of the row; a
\* toggle that follows another request's toggle of the same flag (nothing in
\* between) returns the opposite value and puts the flag back where it was
\* before the first
C31_ToggleAtomic ==
    [][\A p \in Procs :
         (cb[p].pc = "toggle" /\ cb'[p].pc = "answer" /\ cb'[p].out.status = 200) =>
            \E s \in services, t \in services' :
               /\ s.id = cb[p].req.id /\ t.id = s.id
               /\ FlagOf(t, cb[p].req.flag) = ~FlagOf(s, cb[p].req.flag)
               /\ cb'[p].out.flag = FlagOf(t, cb[p].req.flag)
               /\ \A f \in ToggleFlags \ {cb[p].req.flag} : FlagOf(t, f) = FlagOf(s, f)
               /\ services' \ {t} = services \ {s}
               /\ \A q \in Procs \ {p} :
                    (/\ cb[q].pc = "answer" /\ cb[q].out.status = 200
                     /\ cb[q].req = cb[p].req
                     /\ FlagOf(s, cb[p].req.flag) = cb[q].out.flag)
                    => /\ cb'[p].out.flag = ~cb[q].out.flag
                       /\ FlagOf(t, cb[p].req.flag) = ~cb[q].out.flag]_vars

\* Two requests in flight have toggled the enabled flag of one service and
\* hold opposite answers, the flag back at its seeded value
C31_Witness ==
    /\ \A p \in Procs : cb[p].pc = "answer" /\ cb[p].out.status = 200
    /\ cb[1].req = cb[2].req /\ cb[1].req.flag = "enabled"
    /\ cb[1].out.flag = ~cb[2].out.flag
    /\ \E s \in services : s.id = cb[1].req.id /\ s.enabled


\* the matching service with the lowest primary key
LowestMatch(host) ==
    {s \in Matched(host) : \A t \in Matched(host) : s.id <= t.id}

\* the answer is the gate's: 503, or the disabled page of some service
GateAnswer ==
    resp.status = 503 \/ \E sv \in services : resp.location = DisabledLocation(sv)

\* C32: when the forwarded host matches services, the answer is the one the
\* matching service with the lowest primary key decides: the gate fires iff
\* that service is disabled (naming it to browsers), and a role handed to a
\* validated session is the one the policy gives on that same service
C32_LowestKeyJudged ==
    (AuthAnswered /\ resp.host # <<>> /\ Matched(resp.host) # {}) =>
        \A s \in LowestMatch(resp.host) :
            /\ GateAnswer <=> ~s.enabled
            /\ (GateAnswer /\ resp.html) => resp.location = DisabledLocation(s)
            /\ (resp.status = 200 /\ resp.hdrDid # "") =>
                  \E u \in UserByDID(resp.hdrDid) :
                     resp.role = (IF u.role \in {"owner", "admin"} THEN s.admin_role
                                  ELSE CHOOSE r \in GrantOn(u, s) : TRUE)


\* ---------------------------------------------------- the cleanup task
\* the pass deleting only rows past their expiry, not those at it
CleanupPass_pastExpiry ==
    /\ resp = NoResp
    /\ tasks.cleanup = "loop" /\ tasks.passes < MaxPasses
    /\ sessions' = {s \in sessions : s.expires_at >= now}
    /\ tasks' = [tasks EXCEPT !.passes = @ + 1]
    /\ UNCHANGED <<users, services, grants, nextId, now, cb, pending, issued, resp, health>>

\* case <-ticker.C with the DELETE done: every row with expires_at <= now()
\* goes, the task is back at the select
CleanupPass ==
    /\ resp = NoResp
    /\ tasks.cleanup = "loop" /\ tasks.passes < MaxPasses
    /\ sessions' = {s \in sessions : s.expires_at > now}
    /\ tasks' = [tasks EXCEPT !.passes = @ + 1]
    /\ UNCHANGED <<users, services, grants, nextId, now, cb, pending, issued, resp, health>>

\* case <-ticker.C with Exec returning an error (the 10 s deadline included):
\* the statement changes no row, the error is logged, the loop goes on
CleanupFail ==
    /\ resp = NoResp
    /\ tasks.cleanup = "loop" /\ tasks.passes < MaxPasses
    /\ tasks' = [tasks EXCEPT !.passes = @ + 1, !.failures = @ + 1]
    /\ UNCHANGED <<users, services, grants, sessions, nextId, now, cb, pending, issued, resp,
                   health>>

\* main.go: close(m.stopCleanup), once
StopCleanup ==
    /\ resp = NoResp
    /\ ~tasks.stopCleanup
    /\ tasks' = [tasks EXCEPT !.stopCleanup = TRUE]
    /\ UNCHANGED <<users, services, grants, sessions, nextId, now, cb, pending, issued, resp,
                   health>>

\* case <-m.stopCleanup: return.  With a tick ready as well the select may
\* take either case.
CleanupReturn ==
    /\ resp = NoResp
    /\ tasks.cleanup = "loop" /\ tasks.stopCleanup
    /\ tasks' = [tasks EXCEPT !.cleanup = "returned"]
    /\ UNCHANGED <<users, services, grants, sessions, nextId, now, cb, pending, issued, resp,
                   health>>

NextCleanup ==
    \/ SessLogin
    \/ LastSeenUpdate
    \/ Tick
    \/ CleanupPass
    \/ CleanupFail
    \/ StopCleanup
    \/ CleanupReturn
    \/ Respond

SpecCleanup == Init /\ [][NextCleanup]_vars

\* C33: a cleanup pass that succeeds removes exactly the session rows with
\* expires_at <= now and leaves the others as they were; a pass that fails
\* changes no row; either way nothing else is touched and the task is still
\* in its loop, so the next tick runs a pass again
C33_CleanupPass ==
    [][tasks'.passes # tasks.passes =>
         /\ sessions' = (IF tasks'.failures # tasks.failures THEN sessions
                         ELSE {v \in sessions : ~(v.expires_at <= now)})
         /\ tasks'.cleanup = "loop" /\ tasks.cleanup = "loop"
         /\ UNCHANGED <<users, services, grants, nextId, now, cb, pending, issued>>]_vars

\* After a failed pass a second pass has removed an expired session (one
\* expiring at this very instant) and kept a live one
C33_Witness ==
    /\ tasks.passes = 2 /\ tasks.failures = 1 /\ tasks.cleanup = "loop"
    /\ \E v \in issued : v.expires_at = now /\ \A w \in sessions : w.token # v.token
    /\ \E w \in sessions : w.expires_at > now


\* ---------------------------------------------------- the health poller
\* addresses some variable still points to; the others are free, their maps
\* collected
Refs(h, t) ==
    ({h.data, t.built} \cup {h.readers[r].src : r \in Readers}
                       \cup {h.readers[r].m : r \in Readers}) \ {0}
NewAddr == CHOOSE a \in MapAddrs \ Refs(health, tasks) :
              \A b \in MapAddrs \ Refs(health, tasks) : a <= b
Collect(h, t) ==
    [h EXCEPT !.maps = [a \in MapAddrs |-> IF a \in Refs(h, t) THEN h.maps[a] ELSE <<>>]]
Put(map, k, v) == [x \in DOMAIN map \cup {k} |-> IF x = k THEN v ELSE map[x]]

FrameOfStore == UNCHANGED <<users, services, grants, sessions, nextId, now, cb, pending, issued, resp>>

\* case <-time.After(60 s) of the initial wait, case <-ticker.C of the loop:
\* refreshHealth is entered
PollerFire ==
    /\ resp = NoResp
    /\ tasks.poller \in {"wait", "loop"}
    /\ tasks' = [tasks EXCEPT !.poller = "list"]
    /\ UNCHANGED health /\ FrameOfStore

\* case <-s.healthStop: break, which leaves the select and not the loop
PollerReturn_break ==
    /\ resp = NoResp
    /\ tasks.poller \in {"wait", "loop"} /\ tasks.healthStop
    /\ tasks' = [tasks EXCEPT !.poller = IF @ = "wait" THEN "list" ELSE "loop"]
    /\ UNCHANGED health /\ FrameOfStore

\* case <-s.healthStop of either select: return
PollerReturn ==
    /\ resp = NoResp
    /\ tasks.poller \in {"wait", "loop"} /\ tasks.healthStop
    /\ tasks' = [tasks EXCEPT !.poller = "returned"]
    /\ UNCHANGED health /\ FrameOfStore

\* Server.Shutdown: close(s.healthStop), after main has stopped the cleanup
Shutdown ==
    /\ resp = NoResp
    /\ tasks.stopCleanup /\ ~tasks.healthStop
    /\ tasks' = [tasks EXCEPT !.healthStop = TRUE]
    /\ UNCHANGED health /\ FrameOfStore

\* refreshHealth, ListServices: the ids listed, or an error that ends the
\* iteration with the snapshot as it was
PollerList ==
    /\ resp = NoResp
    /\ tasks.poller = "list"
    /\ \/ tasks' = [tasks EXCEPT !.poller = "probe", !.svcs = {s.id : s \in services}]
       \/ tasks' = [tasks EXCEPT !.poller = "loop"]
    /\ UNCHANGED health /\ FrameOfStore

\* checkServicesHealth: every listed service probed (each probe ends within
\* its 4 s timeout), the verdicts gathered into a new map
PollerProbe ==
    /\ resp = NoResp
    /\ tasks.poller = "probe"
    /\ MapAddrs \ Refs(health, tasks) # {}
    /\ \E alive \in [tasks.svcs -> BOOLEAN] :
         /\ tasks' = [tasks EXCEPT !.poller = "lock", !.svcs = {}, !.built = NewAddr]
         /\ health' = [health EXCEPT !.maps[NewAddr] = alive, !.polled = @ \cup {alive}]
    /\ FrameOfStore

\* s.healthMu.Lock(): waits for the readers inside to leave
PollerLock ==
    /\ resp = NoResp
    /\ tasks.poller = "lock"
    /\ ~health.mu.writer /\ health.mu.readers = {}
    /\ tasks' = [tasks EXCEPT !.poller = "swap"]
    /\ health' = [health EXCEPT !.mu.writer = TRUE]
    /\ FrameOfStore

\* s.healthData = health
PollerSwap ==
    /\ resp = NoResp
    /\ tasks.poller = "swap"
    /\ tasks' = [tasks EXCEPT !.poller = "unlock", !.built = 0]
    /\ health' = Collect([health EXCEPT !.data = tasks.built], tasks')
    /\ FrameOfStore

\* s.healthMu.Unlock(); refreshHealth returns to the loop
PollerUnlock ==
    /\ resp = NoResp
    /\ tasks.poller = "unlock"
    /\ tasks' = [tasks EXCEPT !.poller = "loop"]
    /\ health' = [health EXCEPT !.mu.writer = FALSE]
    /\ FrameOfStore

\* cachedHealth, s.healthMu.RLock(): not while the writer holds the lock or
\* waits for it
ReaderRLock(r) ==
    /\ resp = NoResp
    /\ health.readers[r].pc = "idle"
    /\ ~health.mu.writer /\ tasks.poller # "lock"
    /\ health' = [health EXCEPT !.mu.readers = @ \cup {r}, !.readers[r].pc = "make"]
    /\ UNCHANGED tasks /\ FrameOfStore

\* cachedHealth handing out the shared map itself
ReaderMake_alias(r) ==
    /\ resp = NoResp
    /\ health.readers[r].pc = "make"
    /\ health' = [health EXCEPT !.readers[r] = [pc |-> "copy", src |-> health.data,
                                                  m |-> health.data, todo |-> {}]]
    /\ UNCHANGED tasks /\ FrameOfStore

\* m := make(map[int64]bool, len(s.healthData)); range s.healthData begins
ReaderMake(r) ==
    /\ resp = NoResp
    /\ health.readers[r].pc = "make"
    /\ MapAddrs \ Refs(health, tasks) # {}
    /\ health' = [health EXCEPT !.readers[r] =
                     [pc |-> "copy", src |-> health.data, m |-> NewAddr,
                      todo |-> IF health.data = 0 THEN {}
                               ELSE DOMAIN health.maps[health.data]]]
    /\ UNCHANGED tasks /\ FrameOfStore

\* m[k] = v for one more key of the range
ReaderCopy(r) ==
    /\ resp = NoResp
    /\ health.readers[r].pc = "copy"
    /\ \E k \in health.readers[r].todo :
         LET rd == health.readers[r]
         IN health' = [health EXCEPT !.maps[rd.m] = Put(@, k, health.maps[rd.src][k]),
                                     !.readers[r].todo = @ \ {k}]
    /\ UNCHANGED tasks /\ FrameOfStore

\* return m, the deferred RUnlock
ReaderReturn(r) ==
    /\ resp = NoResp
    /\ health.readers[r].pc = "copy" /\ health.readers[r].todo = {}
    /\ health' = Collect([health EXCEPT !.mu.readers = @ \ {r}, !.readers[r].pc = "have",
                                         !.readers[r].src = 0], tasks)
    /\ UNCHANGED tasks /\ FrameOfStore

\* the caller writes into the map it was given
ReaderMutate(r) ==
    /\ resp = NoResp
    /\ health.readers[r].pc = "have" /\ health.readers[r].m # 0
    /\ \E k \in ServiceIds, v \in BOOLEAN :
         health' = [health EXCEPT !.maps[health.readers[r].m] = Put(@, k, v)]
    /\ UNCHANGED tasks /\ FrameOfStore

\* the caller is done with the map
ReaderDrop(r) ==
    /\ resp = NoResp
    /\ health.readers[r].pc = "have"
    /\ health' = Collect([health EXCEPT !.readers[r] = IdleReader], tasks)
    /\ UNCHANGED tasks /\ FrameOfStore

NextHealth ==
    \/ PollerFire
    \/ PollerList
    \/ PollerProbe
    \/ PollerLock
    \/ PollerSwap
    \/ PollerUnlock
    \/ \E r \in Readers : ReaderRLock(r)
    \/ \E r \in Readers : ReaderMake(r)
    \/ \E r \in Readers : ReaderCopy(r)
    \/ \E r \in Readers : ReaderReturn(r)
    \/ \E r \in Readers : ReaderMutate(r)
    \/ \E r \in Readers : ReaderDrop(r)

SpecHealth == Init /\ [][NextHealth]_vars


\* the map handed to reader r by a step that ends its cachedHealth call
Returned(r) == health.readers[r].pc = "copy" /\ health'.readers[r].pc = "have"
SnapshotBefore == IF health.data = 0 THEN <<>> ELSE health.maps[health.data]

\* C35 as stated: every map a reader obtains is the complete result of one
\* poll iteration.
C35_CopyOfAPoll ==
    [][\A r \in Readers :
          Returned(r) => health'.maps[health'.readers[r].m] \in health'.polled]_vars

\* C35: a reader of cachedHealth obtains a map of its own that equals the
\* shared snapshot, which is the complete result of one poll iteration or,
\* before the first swap, empty; no step changes the shared snapshot in place,
\* so writing into a copy leaves it alone; the poller holds the lock only
\* around the swap, never while it lists the store or probes.
C35_SnapshotCopies ==
    [][/\ \A r \in Readers :
            Returned(r) =>
              /\ health'.readers[r].m \notin {0, health'.data}
              /\ health'.maps[health'.readers[r].m] = SnapshotBefore
              /\ SnapshotBefore \in health.polled \cup {<<>>}
              /\ health.data = 0 \/ SnapshotBefore \in health.polled
       /\ health'.data # 0 => health'.maps[health'.data] \in health'.polled
       /\ health'.data = health.data /\ health.data # 0
            => health'.maps[health.data] = health.maps[health.data]
       /\ health'.mu.writer => tasks'.poller \in {"swap", "unlock"}
       /\ tasks'.poller \in {"list", "probe"} => ~health'.mu.writer]_vars

C35_Witness ==
    /\ health.data # 0
    /\ tasks.poller = "probe" /\ ~health.mu.writer
    /\ health.readers[1].pc = "have"
    /\ health.maps[health.readers[1].m] \notin health.polled
    /\ DOMAIN health.maps[health.readers[1].m] = DOMAIN health.maps[health.data]
    /\ health.readers[2].pc = "copy" /\ health.readers[2].todo # {}
    /\ health.maps[health.data] \in health.polled


\* ------------------------------------------------------------- teardown
\* a poll that finds the services all up or all down
TeardownProbe ==
    /\ PollerProbe
    /\ \A k, l \in DOMAIN health'.maps[tasks'.built] :
          health'.maps[tasks'.built][k] = health'.maps[tasks'.built][l]

PollerRefresh == PollerList \/ TeardownProbe \/ PollerLock \/ PollerSwap \/ PollerUnlock

\* the one login that precedes the shutdown
TeardownLogin ==
    /\ resp = NoResp
    /\ nextId.session = 1
    /\ handleOAuthCallback(OwnerDID, "h1", NoToken)
    /\ UNCHANGED <<users, services, grants, now, tasks, health, cb>>

NextTeardown ==
    \/ TeardownLogin
    \/ Tick
    \/ CleanupPass
    \/ CleanupFail
    \/ StopCleanup
    \/ CleanupReturn
    \/ Shutdown
    \/ PollerFire
    \/ PollerReturn
    \/ PollerList
    \/ TeardownProbe
    \/ PollerLock
    \/ PollerSwap
    \/ PollerUnlock
    \/ Respond

\* a select with several ready cases picks one at random, so a closed stop
\* channel is not passed over for ever; a statement that can run does run
SpecTeardown ==
    /\ Init /\ [][NextTeardown]_vars
    /\ SF_vars(CleanupReturn) /\ SF_vars(PollerReturn)
    /\ WF_vars(PollerRefresh) /\ WF_vars(Respond)


\* C34: after its stop channel is closed each background task eventually
\* returns, the poller also when the close arrives during its initial wait;
\* a returned task stays returned, and from then on no cleanup pass runs, no
\* session is deleted and the health snapshot is not swapped.
C34_TasksReturn ==
    /\ (tasks.stopCleanup ~> tasks.cleanup = "returned")
    /\ (tasks.healthStop ~> tasks.poller = "returned")
    /\ (tasks.healthStop /\ tasks.poller = "wait" ~> tasks.poller = "returned")
    /\ [][tasks.cleanup = "returned" =>
             /\ tasks'.cleanup = "returned"
             /\ tasks'.passes = tasks.passes /\ tasks'.failures = tasks.failures
             /\ sessions \subseteq sessions']_vars
    /\ [][tasks.poller = "returned" =>
             /\ tasks'.poller = "returned"
             /\ health' = health]_vars

C34_Witness ==
    /\ tasks.cleanup = "returned" /\ tasks.poller = "returned"
    /\ health.data = 0 /\ health.polled = {}
    /\ \E v \in sessions : v.expires_at <= now


\* C36: the OAuth callback inserts a session only for a DID that has a users
\* row: every session's DID is a user's DID (no user is deleted here, so a DID
\* without a row never had one), and the callback of a DID without a row
\* answers 302 to the login page with an error, sets no cookie and inserts
\* nothing.
C36_SessionsOfUsers ==
    /\ \A v \in sessions : UserByDID(v.did) # {}
    /\ resp.op = "callback" /\ UserByDID(resp.did) = {} =>
          /\ resp.status = 302 /\ resp.location = LoginError
          /\ resp.setCookie = NoCookie /\ ~resp.created

C36_Witness ==
    /\ resp.op = "callback" /\ resp.did = "did:a" /\ UserByDID("did:a") = {}
    /\ resp.location = LoginError
    /\ \E v \in sessions : v.did = OwnerDID
    /\ \E p \in Procs : cb[p].pc = "insert"


\* C37: the admin API takes the caller's authority from the users table as it
\* is when the request arrives: a request with a live session whose DID has a
\* users row of role user answers 403, one whose DID has no users row any more
\* answers 401, and neither changes a user, a service or a grant.
C37_AuthorityFromUsers ==
    [][resp'.op \in AdminOps =>
         \A v \in LiveSessions(resp'.cookie) :
            (\A u \in UserByDID(v.did) : u.role = "user") =>
               /\ resp'.status = IF UserByDID(v.did) = {} THEN 401 ELSE 403
               /\ users' = users /\ services' = services /\ grants' = grants
               /\ nextId' = nextId]_vars

\* an admin granted a role, was demoted to user, and is now refused with the
\* session it logged in with
C37_Witness ==
    /\ resp.op \in AdminOps /\ resp.status = 403
    /\ \E v \in LiveSessions(resp.cookie), u \in users, g \in grants :
         /\ v.did = u.did /\ u.role = "user" /\ g.granted_by = u.id

\* a deleted user's surviving session is refused
C37_WitnessDeleted ==
    /\ resp.op \in AdminOps /\ resp.status = 401
    /\ \E v \in LiveSessions(resp.cookie) : UserByDID(v.did) = {}


\* ------------------------------------------------------ session expiry
\* Every operation that reads or re-issues a session, with logins that join a
\* group, the detached last_seen updates and the clock
ExpiryRelay ==
    /\ resp = NoResp
    /\ \E token \in Cookies : handleRelay(token, <<"/", "x">>, <<"g", ".", "p">>)
    /\ UNCHANGED <<users, services, grants, sessions, nextId, now, tasks, health, cb, issued>>

NextExpiry ==
    \/ GroupLogin
    \/ ConcCreateUser
    \/ ValidateOp
    \/ SwitchToOp
    \/ DestroyOneOp
    \/ ExpiryRelay
    \/ LastSeenUpdate
    \/ Tick
    \/ Respond

SpecExpiry == Init /\ [][NextExpiry]_vars

\* the session cookie a response sets, if it sets one for a session
CookieSet(r) ==
    IF r.op \in {"switchTo", "destroyOne"} THEN r.cookie
    ELSE IF r.op \in {"relay", "callback"} THEN r.setCookie
    ELSE NoCookie
\* what an operation told its caller about a session's expiry
ExpiryShown(r) ==
    IF r.op = "validate" THEN {[token |-> x.token, expires |-> x.expires_at] : x \in r.sess}
    ELSE IF CookieSet(r).value # NoToken
         THEN {[token |-> CookieSet(r).value, expires |-> CookieSet(r).expires]}
         ELSE {}

\* C38: no step changes expires_at, token, did or group_id of a session that
\* exists before and after it; every expiry an operation shows, in the session
\* Validate returns or in the cookie SwitchTo, DestroyOne, the relay or the
\* callback sets, is the stored expires_at of the row with that token; and
\* every row expires at its creation time plus the TTL, so no token validates
\* from then on.
C38_ExpiryFixed ==
    [][/\ \A v \in sessions, w \in sessions' :
            w.id = v.id => /\ w.expires_at = v.expires_at /\ w.token = v.token
                           /\ w.did = v.did /\ w.group_id = v.group_id
       /\ \A e \in ExpiryShown(resp') :
            \E w \in sessions' : w.token = e.token /\ w.expires_at = e.expires
       /\ \A w \in sessions' : w.expires_at = w.created_at + TTL
       /\ \A i \in issued' : now' >= i.created_at + TTL =>
            \A w \in sessions' : w.token = i.token => w.expires_at <= now']_vars

\* after the clock moved, SwitchTo hands out the other identity's cookie, with
\* the expiry stored at its creation, while a last_seen update has touched it
C38_Witness ==
    /\ resp.op = "switchTo" /\ ~resp.err
    /\ \E w \in sessions :
         /\ w.token = resp.cookie.value /\ resp.cookie.expires = w.expires_at
         /\ w.last_seen > w.created_at
         /\ w.expires_at < now + TTL


\* the relay re-issues a session's cookie after the clock moved
C38_RelayReached ==
    /\ resp.op = "relay" /\ resp.setCookie.value # NoToken
    /\ resp.setCookie.expires < now + TTL


\* ------------------------------------------------- the stored redirect
\* values the redirect cookie may hold when the callback arrives
StoredRedirects ==
    { <<>>,
      <<"https", ":", "/", "/", "p", "/", "x">>,
      <<"http", ":", "/", "/", "a", ".", "p", "/">>,
      <<"https", ":", "/", "/", "p", ":", "8", "/">>,
      <<"https", ":", "/", "/", "e", "/">>,
      <<"https", ":", "/", "/", "e", "p", "/">>,
      <<"https", ":", "/", "/", "p", "@", "e", "/">>,
      <<"https", ":", "/", "/", "e", "?", ".", "p">>,
      <<"https", ":", "/", "/", "e", "#", ".", "p">>,
      <<"https", ":", "/", "/", "e", "\\", ".", "p", "/">>,
      <<"https", ":", "/", "/", "e", ":", ".", "p", "/">>,
      <<"https", ":", "/", "e">>,
      <<"ftp", ":", "/", "/", "p", "/">>,
      <<"javascript", ":", "x">>,
      <<"/", "/", "p", "/", "x">>,
      <<"/", "x">> }

RedirectLogin ==
    /\ resp = NoResp
    /\ nextId.session <= MaxSessions
    /\ \E did \in {OwnerDID, "did:a"}, cookie \in {NoToken, Tok(1)}, rc \in StoredRedirects :
         handleOAuthCallbackRc(did, "h1", cookie, rc)
    /\ UNCHANGED <<users, services, grants, now, tasks, health, cb>>

NextRedirect ==
    \/ RedirectLogin
    \/ ConcCreateUser
    \/ LastSeenUpdate
    \/ Tick
    \/ Respond

SpecRedirect == Init /\ [][NextRedirect]_vars

\* the stored values a browser resolves to the primary cookie domain p or a
\* subdomain of it over http or https, written out one by one
OnPrimaryDomain ==
    { <<"https", ":", "/", "/", "p", "/", "x">>,
      <<"http", ":", "/", "/", "a", ".", "p", "/">>,
      <<"https", ":", "/", "/", "p", ":", "8", "/">> }
Completed(r) == r.op = "callback" /\ r.status = 302 /\ r.location # LoginError

\* C39: a completed OAuth callback redirects to the portal root, or to the
\* stored redirect when that is an http(s) URL whose host is the primary
\* cookie domain or a subdomain of it; every other stored value is dropped
\* for the portal root; a stored redirect cookie is expired by the response.
C39_RedirectOnDomain ==
    Completed(resp) =>
       /\ \/ resp.location = PublicURL \o <<"/">>
          \/ resp.location = resp.redirect /\ resp.redirect \in OnPrimaryDomain
       /\ resp.redirect \notin OnPrimaryDomain => resp.location = PublicURL \o <<"/">>
       /\ resp.redirect # <<>> => resp.clearRedirect

\* a login that joins a group is sent on to the subdomain it came from
C39_Witness ==
    /\ Completed(resp) /\ resp.created /\ resp.cookie # NoToken
    /\ resp.redirect = <<"http", ":", "/", "/", "a", ".", "p", "/">>
    /\ resp.location = resp.redirect /\ resp.clearRedirect

\* a stored redirect with the domain in its userinfo is dropped
C39_WitnessDropped ==
    /\ Completed(resp)
    /\ resp.redirect = <<"https", ":", "/", "/", "p", "@", "e", "/">>
    /\ resp.location = PublicURL \o <<"/">> /\ resp.clearRedirect


\* ------------------------------------------------------------ re-seeding
\* Seed loads while the owner toggles flags and holds grants, and /auth
\* requests for hosts without LIKE wildcards
ReseedAuth ==
    /\ resp = NoResp
    /\ \E host \in {<<"a", "b">>, <<"z">>}, cookie \in {NoToken, Tok(1)}, html \in BOOLEAN :
            handleAuth(host, cookie, {}, IF html THEN {"text/html"} ELSE {}, FALSE, FALSE,
                       <<>>, <<"/", "d">>)
    /\ UNCHANGED <<users, services, grants, sessions, nextId, now, tasks, health, cb, issued>>

ReseedGrant ==
    /\ resp = NoResp
    /\ \E sid \in ServiceIds : handleCreateGrant(OwnerCookie, 1, sid, "editor")

NextReseed ==
    \/ TeardownLogin
    \/ ReseedGrant
    \/ ToggleBegin(1)
    \/ ToggleExec(1)
    \/ AuthAnswer(1)
    \/ SeedLoad
    \/ ReseedAuth
    \/ Respond

SpecReseed == Init /\ [][NextReseed]_vars

\* C40: a seed load leaves every existing service's id, slug, enabled and
\* public flags as they were and changes no grant; and in every state, seed
\* loads or not, a request for a host whose matching services are all
\* disabled gets the gate's answer (503, or the disabled page for browsers).
C40_ReseedKeepsFlags ==
    [][/\ resp'.op = "seed" =>
            /\ grants' = grants
            /\ \A s \in services : \E t \in services' :
                  /\ t.id = s.id /\ t.slug = s.slug
                  /\ t.enabled = s.enabled /\ t.public = s.public
            /\ \A t \in services' : \A u \in services' : t.id = u.id => t = u
       /\ (/\ resp'.op = "auth" /\ Matched(resp'.host) # {}
           /\ \A s \in Matched(resp'.host) : ~s.enabled) =>
             /\ resp'.status \in {503, 302} /\ resp'.hdrDid = ""
             /\ resp'.html => \E s \in Matched(resp'.host) :
                                 resp'.location = DisabledLocation(s)
             /\ ~resp'.html => resp'.status = 503]_vars

\* the owner disabled service 1 and made it public, a seed load rewrote its
\* admin_role, a grant on it stands, and its host is still refused
C40_Witness ==
    /\ resp.op = "auth" /\ resp.host = <<"a", "b">> /\ resp.status = 503
    /\ resp.cookie = Tok(1)
    /\ \E s \in services :
         /\ s.id = 1 /\ s.slug = "s1" /\ s.admin_role = "root"
         /\ ~s.enabled /\ s.public
         /\ \E g \in grants : g.service_id = 1

====
